---- MODULE Spec2Model ----
(***************************************************************************)
(* Model of the resume generation pipeline of the server:                  *)
(*   POST /api/generate      (server/index.js)                             *)
(*   verifyBullets, extractAllBullets, calculateTruthScore, generateFlags  *)
(*                           (server/services/verifierService.js)          *)
(*                                                                         *)
(* JavaScript strings whose characters matter (bullet texts, bullet ids)   *)
(* are sequences of one-character strings; opaque texts (reason, evidence) *)
(* are TLA+ strings.  A JavaScript value that may be a string, null or     *)
(* undefined is a tagged tuple: <<"str", chars>>, <<"null">>,              *)
(* <<"undefined">>.                                                        *)
(***************************************************************************)
EXTENDS Integers, Sequences, FiniteSets, TLC

----------------------------------------------------------------------------
(* Bounds of the model.                                                    *)

\* longest verification list of mixed statuses given to the scorer
MaxScoreLen == 6
\* longest list of one repeated status given to the scorer
MaxRunLen == 15
\* longest verification list given to the flag synthesizer
MaxFlagLen == 3
\* most suggested additions in a generator output
MaxAdditions == 2
\* most experience entries / project entries / bullets per entry
MaxExperience == 2
MaxProjects == 1
MaxBullets == 2
\* most verifications in the verifier model's output
MaxModelVerifs == 2
\* most bullets of the experience entry of a resume given to the verifier
MaxVerifyBullets == 2
\* most tokens of a model text given to the JSON recovery
MaxTextLen == 5
\* most characters of a model text without JSON in it
MaxLongText == 501
\* most calls of getDatabase / getCollections in one run
MaxDbCalls == 3

----------------------------------------------------------------------------
(* JavaScript values.                                                      *)

Undefined == <<"undefined">>
Null == <<"null">>
Str(s) == <<"str", s>>
Arr(a) == <<"arr", a>>

IsStr(x) == x[1] = "str"
IsArr(x) == x[1] = "arr"
\* JavaScript truthiness of a string / array / null / undefined value
Truthy(x) == IF IsStr(x) THEN x[2] # <<>> ELSE IsArr(x)

\* A const or let is Unset until it has been assigned, then Set(v); Val reads
\* it.  The same pair is the result of a call that may throw.
Unset == <<>>
Set(v) == <<v>>
Val(x) == x[1]
IsSet(x) == Len(x) = 1

\* String.prototype.includes
Includes(hay, needle) ==
  \E i \in 0..(Len(hay) - Len(needle)) :
      SubSeq(hay, i + 1, i + Len(needle)) = needle

Digits == <<"0", "1", "2", "3", "4", "5", "6", "7", "8", "9">>

\* decimal rendering of a non-negative number in a template string
RECURSIVE NumToString(_)
NumToString(n) ==
  IF n < 10 THEN <<Digits[n + 1]>>
  ELSE NumToString(n \div 10) \o <<Digits[(n % 10) + 1]>>

\* 'abc'.split('_')[0]: the characters before the first underscore
RECURSIVE SplitFirst(_)
SplitFirst(s) ==
  IF s = <<>> \/ Head(s) = "_" THEN <<>>
  ELSE <<Head(s)>> \o SplitFirst(Tail(s))

S_summary == <<"s", "u", "m", "m", "a", "r", "y">>
S_experience == <<"e", "x", "p", "e", "r", "i", "e", "n", "c", "e">>
S_projects == <<"p", "r", "o", "j", "e", "c", "t", "s">>
S_bullet == <<"b", "u", "l", "l", "e", "t">>
S_anonymous == <<"a", "n", "o", "n">>
S_requirements == <<"r", "e", "q", "u", "i", "r", "e", "m", "e", "n", "t", "s">>

----------------------------------------------------------------------------
(* verifierService.js: extractAllBullets                                   *)

\* an identifier that leaves out the bullet's index within its entry
PositionIdOfEntry(section, itemIndex, bulletIndex) ==
  section \o <<"_">> \o NumToString(itemIndex)

\* `${section}_${itemIndex}_${bulletIndex}`
PositionId(section, itemIndex, bulletIndex) ==
  section \o <<"_">> \o NumToString(itemIndex) \o <<"_">> \o NumToString(bulletIndex)

\* the object pushed for bullet j (1-based) of entry i (1-based) of a section
EntryBullet(section, entry, i, j) ==
  [ bulletText |-> entry.bullets[2][j].text,
    section |-> section,
    sectionIndex |-> i - 1,
    bulletIndex |-> j - 1,
    bulletId |-> PositionId(section, i - 1, j - 1) ]

\* exp.bullets.forEach(...) guarded by if (exp.bullets)
EntryBullets(section, entry, i) ==
  IF Truthy(entry.bullets)
  THEN [j \in 1..Len(entry.bullets[2]) |-> EntryBullet(section, entry, i, j)]
  ELSE <<>>

\* entries.forEach((entry, index) => ...) from entry i on
RECURSIVE SectionBullets(_, _, _)
SectionBullets(section, entries, i) ==
  IF i > Len(entries) THEN <<>>
  ELSE EntryBullets(section, entries[i], i) \o SectionBullets(section, entries, i + 1)

SummaryBullets(tr) ==
  IF Truthy(tr.summary)
  THEN << [ bulletText |-> tr.summary[2],
            section |-> S_summary,
            sectionIndex |-> 0,
            bulletIndex |-> 0,
            bulletId |-> S_summary \o <<"_", "0">> ] >>
  ELSE <<>>

\* an extractor that walks the projects before the experience
extractAllBulletsProjectsFirst(tr) ==
  SummaryBullets(tr)
    \o (IF Truthy(tr.projects) THEN SectionBullets(S_projects, tr.projects[2], 1) ELSE <<>>)
    \o (IF Truthy(tr.experience) THEN SectionBullets(S_experience, tr.experience[2], 1) ELSE <<>>)

extractAllBullets(tr) ==
  SummaryBullets(tr)
    \o (IF Truthy(tr.experience) THEN SectionBullets(S_experience, tr.experience[2], 1) ELSE <<>>)
    \o (IF Truthy(tr.projects) THEN SectionBullets(S_projects, tr.projects[2], 1) ELSE <<>>)

----------------------------------------------------------------------------
(* verifierService.js: verifyBullets, re-association of the verifications  *)

\* the predicate given to bullets.find
TextMatches(b, v) ==
  \/ b.bulletText = v.bulletText
  \/ Includes(b.bulletText, v.bulletText)
  \/ Includes(v.bulletText, b.bulletText)

\* bullets.find(...) || bullets[index]; Undefined when neither exists
MatchingBullet(bullets, v, index) ==
  IF \E k \in 1..Len(bullets) : TextMatches(bullets[k], v)
  THEN LET k == CHOOSE k \in 1..Len(bullets) :
                  /\ TextMatches(bullets[k], v)
                  /\ \A m \in 1..(k - 1) : ~TextMatches(bullets[m], v)
       IN  Str(bullets[k].bulletId)
  ELSE IF index + 1 <= Len(bullets) THEN Str(bullets[index + 1].bulletId)
  ELSE Undefined

\* an assignment without the last alternative of the chain
AssignedBulletIdWithoutFallback(bullets, v, index) ==
  IF Truthy(v.bulletId) THEN v.bulletId ELSE MatchingBullet(bullets, v, index)

\* verification.bulletId || matchingBullet?.bulletId || `bullet_${index}`
AssignedBulletId(bullets, v, index) ==
  IF Truthy(v.bulletId) THEN v.bulletId
  ELSE IF Truthy(MatchingBullet(bullets, v, index)) THEN MatchingBullet(bullets, v, index)
  ELSE Str(S_bullet \o <<"_">> \o NumToString(index))

\* a re-association that walks the extracted bullets instead of the returned
\* verifications, so that surplus verifications are lost
MatchVerificationsPerBullet(bullets, modelVerifs) ==
  [k \in 1..(IF Len(modelVerifs) < Len(bullets) THEN Len(modelVerifs) ELSE Len(bullets)) |->
     [modelVerifs[k] EXCEPT !.bulletId = AssignedBulletId(bullets, modelVerifs[k], k - 1)]]

\* validatedOutput.verifications.map((verification, index) => ...)
MatchVerifications(bullets, modelVerifs) ==
  [k \in 1..Len(modelVerifs) |->
     [modelVerifs[k] EXCEPT !.bulletId = AssignedBulletId(bullets, modelVerifs[k], k - 1)]]

----------------------------------------------------------------------------
(* verifierService.js: calculateTruthScore, generateFlags                  *)

\* a scorer that charges 10 points for a STRETCH
PenaltyTenForStretch(status) ==
  CASE status = "SUPPORTED" -> 0
    [] status = "STRETCH" -> 10
    [] status = "UNSUPPORTED" -> 20
    [] OTHER -> 0

Penalty(status) ==
  CASE status = "SUPPORTED" -> 0
    [] status = "STRETCH" -> 8
    [] status = "UNSUPPORTED" -> 20
    [] OTHER -> 0

\* a loop that the break of case 'SUPPORTED' leaves
RECURSIVE ScoreLoopLeftAtSupported(_, _, _)
ScoreLoopLeftAtSupported(verifs, k, score) ==
  IF k > Len(verifs) THEN score
  ELSE IF verifs[k].status = "SUPPORTED" THEN score
  ELSE ScoreLoopLeftAtSupported(verifs, k + 1, score - Penalty(verifs[k].status))

\* the forEach loop: the running score after the verifications from k on
RECURSIVE ScoreLoop(_, _, _)
ScoreLoop(verifs, k, score) ==
  IF k > Len(verifs) THEN score
  ELSE ScoreLoop(verifs, k + 1, score - Penalty(verifs[k].status))

Min(a, b) == IF a < b THEN a ELSE b
Max(a, b) == IF a > b THEN a ELSE b

\* a scorer without the empty-list guard and without the clamp
calculateTruthScoreUnguarded(verifs) ==
  ScoreLoop(verifs, 1, 100)

calculateTruthScore(verifs) ==
  IF Len(verifs) = 0 THEN 0
  ELSE Max(0, Min(100, ScoreLoop(verifs, 1, 100)))

FlagOf(v) ==
  [ bulletId |-> v.bulletId,
    bulletText |-> Str(v.bulletText),
    status |-> v.status,
    reason |-> v.reason,
    evidence |-> v.evidence,
    suggestedFix |-> v.suggestedFix,
    section |-> SplitFirst(v.bulletId[2]) ]

\* a synthesizer that flags UNSUPPORTED verdicts only
RECURSIVE generateFlagsUnsupportedOnly(_)
generateFlagsUnsupportedOnly(verifs) ==
  IF verifs = <<>> THEN <<>>
  ELSE (IF Head(verifs).status = "UNSUPPORTED" THEN <<FlagOf(Head(verifs))>> ELSE <<>>)
       \o generateFlagsUnsupportedOnly(Tail(verifs))

RECURSIVE generateFlags(_)
generateFlags(verifs) ==
  IF verifs = <<>> THEN <<>>
  ELSE (IF Head(verifs).status = "STRETCH" \/ Head(verifs).status = "UNSUPPORTED"
        THEN <<FlagOf(Head(verifs))>> ELSE <<>>)
       \o generateFlags(Tail(verifs))

\* index.js: (suggestedAdditions || []).map(suggestion => ({...}))
MissingRequirementFlag(s) ==
  [ bulletId |-> Null,
    bulletText |-> Null,
    status |-> "MISSING_REQUIREMENT",
    reason |-> s.reason,
    evidence |-> "none",
    suggestedFix |-> s.suggestedText,
    section |-> S_requirements,
    type |-> "missing_requirement",
    requirement |-> s.requirement ]

MissingRequirementFlags(additions) ==
  IF Truthy(additions)
  THEN [k \in 1..Len(additions[2]) |-> MissingRequirementFlag(additions[2][k])]
  ELSE <<>>

\* a concatenation that puts the missing-requirement flags first
CombineFlagsRequirementsFirst(verificationFlagList, missingRequirementFlagList) ==
  missingRequirementFlagList \o verificationFlagList

\* index.js: [...verificationFlags, ...missingRequirementFlags]
CombineFlags(verificationFlagList, missingRequirementFlagList) ==
  verificationFlagList \o missingRequirementFlagList

----------------------------------------------------------------------------
(* models/generationModel.js: createGenerationDocument                     *)

\* x || []
OrEmpty(x) == IF Truthy(x) THEN x[2] ELSE <<>>

createGenerationDocument(data) ==
  [ id |-> data.generationId,
    userId |-> IF Truthy(data.userId) THEN data.userId ELSE Str(S_anonymous),
    jobUrl |-> IF Truthy(data.jobUrl) THEN data.jobUrl ELSE Null,
    includeCoverLetter |-> data.includeCoverLetter,
    tailoredResumeJson |-> data.tailoredResumeJson,
    claimMap |-> data.claimMap,
    suggestedAdditions |-> OrEmpty(data.suggestedAdditions),
    verifications |-> data.verifications,
    truthScore |-> data.truthScore,
    flags |-> data.flags,
    pdfPath |-> data.pdfPath,
    coverPdfPath |-> data.coverPdfPath ]

----------------------------------------------------------------------------
(* schemas.js: generateInputSchema                                         *)

Bool(b) == <<"bool", b>>
IsBool(x) == x[1] = "bool"

\* z.string().url(): the text has a scheme, "<letters>:", and something after it
IsUrl(s) ==
  \E i \in 2..Len(s) :
     /\ s[i] = ":"
     /\ i < Len(s)
     /\ \A j \in 1..(i - 1) : s[j] \notin {":", "/", "_", " "}

\* an input schema whose jobUrl is any string
ValidInputAnyUrl(body) ==
  /\ IsStr(body.jobText) /\ Len(body.jobText[2]) >= 1
  /\ IsStr(body.resumeText) /\ Len(body.resumeText[2]) >= 1
  /\ body.includeCoverLetter = Undefined \/ IsBool(body.includeCoverLetter)
  /\ body.userId = Undefined \/ IsStr(body.userId)
  /\ body.jobUrl = Undefined \/ IsStr(body.jobUrl)

ValidInput(body) ==
  /\ IsStr(body.jobText) /\ Len(body.jobText[2]) >= 1
  /\ IsStr(body.resumeText) /\ Len(body.resumeText[2]) >= 1
  /\ body.includeCoverLetter = Undefined \/ IsBool(body.includeCoverLetter)
  /\ body.userId = Undefined \/ IsStr(body.userId)
  /\ \/ body.jobUrl = Undefined
     \/ IsStr(body.jobUrl) /\ (IsUrl(body.jobUrl[2]) \/ body.jobUrl[2] = <<>>)

\* the parsed value: includeCoverLetter defaults to false
ParsedInput(body) ==
  [body EXCEPT !.includeCoverLetter =
                  IF body.includeCoverLetter = Undefined THEN FALSE
                  ELSE body.includeCoverLetter[2]]

----------------------------------------------------------------------------
(* geminiService.js / verifierService.js: the text of a model's response   *)
(* and the recovery of one JSON value from it.                             *)
(*                                                                         *)
(* A text is a sequence of tokens.  Space, Prose, Zero, Open and Close are *)
(* one character each; Fence is a line of three backquotes, JsonTag the word *)
(* json, Members(o) the members of the object o written out.               *)

Fence == <<"fence">>
JsonTag == <<"json">>
Space == <<" ">>
\* a character that is no part of a JSON text
Prose == <<"x">>
\* the JSON literal 0
Zero == <<"0">>
Open == <<"{">>
Close == <<"}">>
Members(o) == <<"members", o>>

\* JSON values: the number n, the object with the members o
Num(n) == <<"num", n>>
Obj(o) == <<"obj", o>>
IsObj(v) == v[1] = "obj"
\* !parsedOutput is false
ValueTruthy(v) == IsObj(v) \/ (v[1] = "num" /\ v[2] # 0)
\* the object {}
EmptyObject == [k \in {} |-> Undefined]
\* o has a member k
Has(o, k) == k \in DOMAIN o
\* o.k, undefined when o has no member k
Field(o, k) == IF k \in DOMAIN o THEN o[k] ELSE Undefined

SetMin(S) == CHOOSE x \in S : \A y \in S : x <= y
SetMax(S) == CHOOSE x \in S : \A y \in S : x >= y

\* String.prototype.trim
Trim(s) ==
  LET inked == {i \in 1..Len(s) : s[i] # Space} IN
  IF inked = {} THEN <<>> ELSE SubSeq(s, SetMin(inked), SetMax(inked))

\* String.prototype.substring(a, b) for 0 <= a <= b
Substring(s, a, b) == SubSeq(s, a + 1, Min(b, Len(s)))

\* the text without its white space, which JSON.parse skips between tokens
IsInk(token) == token # Space
SkipSpace(s) == SelectSeq(s, IsInk)

\* JSON.parse: Set(value), or Unset when it throws a SyntaxError
JsonParse(s) ==
  LET t == SkipSpace(s) IN
  IF t = <<Zero>> THEN Set(Num(0))
  ELSE IF t = <<Open, Close>> THEN Set(Obj(EmptyObject))
  ELSE IF Len(t) = 3 /\ t[1] = Open /\ t[2][1] = "members" /\ t[3] = Close
       THEN Set(Obj(t[2][2]))
  ELSE Unset

PositionsOf(s, token) == {i \in 1..Len(s) : s[i] = token}

\* text.match of the fenced block, optionally tagged json: Set(match[1]), or
\* Unset.
\* The match starts at the first fence, takes the tag when it follows, and
\* ends at the next fence.
CodeBlockMatch(text) ==
  LET fences == PositionsOf(text, Fence) IN
  IF Cardinality(fences) < 2 THEN Unset
  ELSE LET p == SetMin(fences)
           q == SetMin(fences \ {p})
           from == IF text[p + 1] = JsonTag THEN p + 2 ELSE p + 1
       IN  Set(Trim(SubSeq(text, from, q - 1)))

\* text.match(/\{[\s\S]*\}/): Set(match[0]), from the first { to the last }
ObjectMatch(text) ==
  LET opens == PositionsOf(text, Open)
      closes == PositionsOf(text, Close)
  IN  IF opens = {} \/ closes = {} \/ SetMin(opens) > SetMax(closes) THEN Unset
      ELSE Set(SubSeq(text, SetMin(opens), SetMax(closes)))

\* parsedOutput after the try around the first JSON.parse (undefined at first)
ParsedFromCodeBlock(text) ==
  LET Parsed(m) ==
        IF IsSet(m) /\ IsSet(JsonParse(Trim(Val(m)))) THEN Val(JsonParse(Trim(Val(m))))
        ELSE Undefined
  IN Parsed(CodeBlockMatch(text))

\* parsedOutput after the second step, entered when !parsedOutput
ParsedFromObject(text, parsedOutput) ==
  LET Parsed(m) ==
        IF ValueTruthy(parsedOutput) THEN parsedOutput
        ELSE IF IsSet(m) /\ IsSet(JsonParse(Val(m))) THEN Val(JsonParse(Val(m)))
        ELSE parsedOutput
  IN Parsed(ObjectMatch(text))

\* the 500 of text.substring(0, 500) and the 1000 of text.substring(0, 1000)
DiagnosticLimit == 500
NullDiagnosticLimit == 1000

\* a recovery that logs the whole text when no step parses
RecoverJsonLoggingAll(text, failure) ==
  LET Third(second, third) ==
        IF ValueTruthy(second) THEN [ok |-> TRUE, value |-> second]
        ELSE IF IsSet(third) THEN [ok |-> TRUE, value |-> Val(third)]
        ELSE [ok |-> FALSE,
              message |-> <<failure, ": ", "Unexpected token">>,
              logged |-> text]
  IN Third(ParsedFromObject(text, ParsedFromCodeBlock(text)), JsonParse(Trim(text)))

\* the three steps of verifierService.js 36-69: [value], or [message, logged]
\* when JSON.parse(text.trim()) throws
RecoverJson(text, failure) ==
  LET Third(second, third) ==
        IF ValueTruthy(second) THEN [ok |-> TRUE, value |-> second]
        ELSE IF IsSet(third) THEN [ok |-> TRUE, value |-> Val(third)]
        ELSE [ok |-> FALSE,
              message |-> <<failure, ": ", "Unexpected token">>,
              logged |-> Substring(text, 0, DiagnosticLimit)]
  IN Third(ParsedFromObject(text, ParsedFromCodeBlock(text)), JsonParse(Trim(text)))

\* geminiService.js 65-105: the three steps, then the !parsedOutput guard
RecoverJsonGuarded(text, failure) ==
  LET Guard(r) ==
        IF r.ok /\ ~ValueTruthy(r.value)
        THEN [ok |-> FALSE,
              message |-> <<failure, " - parsedOutput is null">>,
              logged |-> Substring(text, 0, NullDiagnosticLimit)]
        ELSE r
  IN Guard(RecoverJson(text, failure))

----------------------------------------------------------------------------
(* schemas.js: generatorOutputSchema and verifierOutputSchema, over the    *)
(* members the model carries, and the errors the services make of the      *)
(* issues.  A path is a sequence of keys; a message is a sequence of the   *)
(* pieces of a template string.                                            *)

Issue(path, message) == [path |-> path, message |-> message]

RECURSIVE Concat(_)
Concat(seqs) == IF seqs = <<>> THEN <<>> ELSE Head(seqs) \o Concat(Tail(seqs))

\* the key of the array index i in a path
IndexKey(i) == Digits[i + 1]

\* z.string().optional()
OptionalStringIssues(x, path) ==
  IF x = Undefined \/ IsStr(x) THEN <<>>
  ELSE << Issue(path, "Expected string, received null") >>

\* a summary declared z.string().optional()
OptionalTextIssues(x, path) == OptionalStringIssues(x, path)

\* z.string().min(1)
RequiredTextIssues(x, path) ==
  IF x = Undefined THEN << Issue(path, "Required") >>
  ELSE IF ~IsStr(x) THEN << Issue(path, "Expected string, received null") >>
  ELSE IF Len(x[2]) < 1 THEN << Issue(path, "String must contain at least 1 character(s)") >>
  ELSE <<>>

\* z.array(experienceBulletSchema): text is z.string().min(1)
BulletListIssues(bs, path) ==
  Concat([j \in 1..Len(bs) |->
            IF Len(bs[j].text) < 1
            THEN << Issue(path \o <<IndexKey(j - 1), "text">>,
                          "String must contain at least 1 character(s)") >>
            ELSE <<>>])

\* experienceRoleSchema.bullets: z.array(experienceBulletSchema).min(1)
RoleIssues(role, path) ==
  IF ~IsArr(role.bullets) THEN << Issue(path \o <<"bullets">>, "Required") >>
  ELSE IF Len(role.bullets[2]) < 1
       THEN << Issue(path \o <<"bullets">>, "Array must contain at least 1 element(s)") >>
  ELSE BulletListIssues(role.bullets[2], path \o <<"bullets">>)

\* z.string().url().optional()
OptionalUrlIssues(x, path) ==
  IF x = Undefined THEN <<>>
  ELSE IF ~IsStr(x) THEN << Issue(path, "Expected string, received null") >>
  ELSE IF ~IsUrl(x[2]) THEN << Issue(path, "Invalid url") >>
  ELSE <<>>

\* the keys of basicsSchema.links
LinkKeys == <<"linkedIn", "github", "portfolio", "website">>

\* basicsSchema.links, for a resume that carries basics
LinksIssues(tr, path) ==
  IF ~(Has(tr, "basics") /\ Has(tr.basics, "links")) THEN <<>>
  ELSE Concat([k \in 1..Len(LinkKeys) |->
                 OptionalUrlIssues(Field(tr.basics.links, LinkKeys[k]),
                                   path \o <<"basics", "links", LinkKeys[k]>>)])

\* projectSchema: url: z.string().url().optional(),
\* bullets: z.array(experienceBulletSchema).optional()
ProjectIssues(project, path) ==
  OptionalUrlIssues(Field(project, "url"), path \o <<"url">>)
  \o (IF ~IsArr(project.bullets) THEN <<>>
      ELSE BulletListIssues(project.bullets[2], path \o <<"bullets">>))

\* tailoredResumeSchema
TailoredResumeIssues(tr, path) ==
  LinksIssues(tr, path)
  \o RequiredTextIssues(Field(tr, "summary"), path \o <<"summary">>)
  \o (IF ~IsArr(tr.experience) THEN << Issue(path \o <<"experience">>, "Required") >>
      ELSE Concat([i \in 1..Len(tr.experience[2]) |->
                     RoleIssues(tr.experience[2][i],
                                path \o <<"experience", IndexKey(i - 1)>>)]))
  \o (IF ~IsArr(tr.projects) THEN <<>>
      ELSE Concat([i \in 1..Len(tr.projects[2]) |->
                     ProjectIssues(tr.projects[2][i],
                                   path \o <<"projects", IndexKey(i - 1)>>)]))

\* suggestedAdditions: z.array(z.object({... suggestedText: z.string().optional()})).optional()
SuggestedAdditionsIssues(adds, path) ==
  IF adds = Undefined THEN <<>>
  ELSE IF ~IsArr(adds) THEN << Issue(path, "Expected array, received null") >>
  ELSE Concat([i \in 1..Len(adds[2]) |->
                 OptionalStringIssues(adds[2][i].suggestedText,
                                      path \o <<IndexKey(i - 1), "suggestedText">>)])

\* generatorOutputSchema.parse(value): the issues of the ZodError, none when
\* the value is accepted
GeneratorIssues(value) ==
  IF ~IsObj(value) THEN << Issue(<<>>, "Expected object, received number") >>
  ELSE LET o == value[2] IN
       (IF ~Has(o, "tailoredResumeJson") THEN << Issue(<<"tailoredResumeJson">>, "Required") >>
        ELSE TailoredResumeIssues(o.tailoredResumeJson, <<"tailoredResumeJson">>))
       \o OptionalStringIssues(Field(o, "coverLetterText"), <<"coverLetterText">>)
       \o (IF ~Has(o, "claimMap") THEN << Issue(<<"claimMap">>, "Required") >> ELSE <<>>)
       \o SuggestedAdditionsIssues(Field(o, "suggestedAdditions"), <<"suggestedAdditions">>)

\* bulletVerificationSchema
VerificationIssues(v, path) ==
  (IF v.status \in {"SUPPORTED", "STRETCH", "UNSUPPORTED"} THEN <<>>
   ELSE << Issue(path \o <<"status">>, "Invalid enum value") >>)
  \o OptionalStringIssues(v.suggestedFix, path \o <<"suggestedFix">>)
  \o OptionalStringIssues(v.bulletId, path \o <<"bulletId">>)

\* verifierOutputSchema.parse(value)
VerifierIssues(value) ==
  IF ~IsObj(value) THEN << Issue(<<>>, "Expected object, received number") >>
  ELSE LET vs == Field(value[2], "verifications") IN
       IF ~IsArr(vs) THEN << Issue(<<"verifications">>, "Required") >>
       ELSE Concat([i \in 1..Len(vs[2]) |->
                      VerificationIssues(vs[2][i], <<"verifications", IndexKey(i - 1)>>)])

\* geminiService.js 111-114: if (parsedOutput.coverLetterText === null)
PreprocessGenerator(value) ==
  IF Field(value[2], "coverLetterText") = Null
  THEN Obj([value[2] EXCEPT !.coverLetterText = Undefined])
  ELSE value

\* the verifier with the model loop: if (verification.suggestedFix === null)
PreprocessVerifier(value) ==
  LET vs == Field(value[2], "verifications") IN
  IF IsArr(vs)
  THEN Obj([value[2] EXCEPT !.verifications =
              Arr([i \in 1..Len(vs[2]) |->
                     IF vs[2][i].suggestedFix = Null
                     THEN [vs[2][i] EXCEPT !.suggestedFix = Undefined]
                     ELSE vs[2][i]])])
  ELSE value

\* link.startsWith('http')
StartsWithHttp(s) == Len(s) >= 4 /\ SubSeq(s, 1, 4) = <<"h", "t", "t", "p">>

\* the https:// of the template string
HttpsPrefix == <<"h", "t", "t", "p", "s", ":", "/", "/">>

\* if (link && !link.startsWith('http')) link = https:// + link
NormalizeLink(x) ==
  IF IsStr(x) /\ x[2] # <<>> /\ ~StartsWithHttp(x[2]) THEN Str(HttpsPrefix \o x[2])
  ELSE x

\* the four ifs on links
NormalizeLinks(links) ==
  [k \in DOMAIN links |->
     IF k \in {"linkedIn", "github", "portfolio", "website"} THEN NormalizeLink(links[k])
     ELSE links[k]]

\* for (const project of projects): if (project.url && ...)
NormalizeProject(project) ==
  IF Has(project, "url") THEN [project EXCEPT !.url = NormalizeLink(@)] ELSE project

\* geminiService.js normalizeUrls: the output after the in-place updates
normalizeUrls(output) ==
  [output EXCEPT !.tailoredResumeJson =
     [k \in DOMAIN @ |->
        IF k = "basics" /\ Has(@[k], "links")
        THEN [@[k] EXCEPT !.links = NormalizeLinks(@)]
        ELSE IF k = "projects" /\ IsArr(@[k])
        THEN Arr([i \in 1..Len(@[k][2]) |-> NormalizeProject(@[k][2][i])])
        ELSE @[k]]]

\* Array.prototype.join
RECURSIVE Join(_, _)
Join(parts, sep) ==
  IF parts = <<>> THEN <<>>
  ELSE IF Len(parts) = 1 THEN Head(parts)
  ELSE Head(parts) \o <<sep>> \o Join(Tail(parts), sep)

\* e.path.join('.')
PathText(path) == Join([k \in 1..Len(path) |-> <<path[k]>>], ".")

\* errors.map(e => path: message).join(', ') behind the prefix
IssueReport(prefix, issues) ==
  <<prefix>> \o Join([k \in 1..Len(issues) |->
                        PathText(issues[k].path) \o <<": ", issues[k].message>>], ", ")

\* verifierService.js 93: error.errors.map(e => e.path.join('.')).join(', ')
PathReport(prefix, issues) ==
  <<prefix>> \o Join([k \in 1..Len(issues) |-> PathText(issues[k].path)], ", ")

----------------------------------------------------------------------------
(* The state of one POST /api/generate request.                            *)

VARIABLES
  pc,                \* the await the handler is suspended at
  body,              \* req.body
  validatedInput,    \* generateInputSchema.parse(req.body)
  generationId,
  geminiOutput,      \* result of generateTailoredResume
  genIdx,            \* loop index i in generateTailoredResume
  verIdx,            \* loop index i in verifyBullets
  bullets,           \* extractAllBullets(tailoredResumeJson) in verifyBullets
  validatedOutput,   \* verifierOutputSchema.parse(parsedOutput).verifications
  verifications,
  truthScore,
  verificationFlags,
  flags,
  resumePdf,         \* the file written by generateResumePDF
  coverPdf,          \* the file written by generateCoverLetterPDF
  db,                \* the generations collection
  response,          \* what res.json sent
  error,             \* the error caught by the handler's catch block
  calls,             \* the external calls issued so far, in order
  verifier,          \* which of the two verifyBullets of the repository is loaded
  reply,             \* how the latest model call ended
  genText,           \* text in generateTailoredResume, once the loop is left
  genParsed,         \* parsedOutput in generateTailoredResume, before validation
  verText,           \* text in verifyBullets, once the loop is left
  verParsed,         \* parsedOutput in verifyBullets, before validation
  log,               \* the excerpts of model text written by console.error
  peerPc,            \* where another /api/generate request stands
  peerId,            \* the generationId of that request
  client,            \* db/mongodb.js: let client
  mongoDb,           \* db/mongodb.js: let db
  created,           \* the number of MongoClient objects constructed
  callers            \* the calls of getDatabase in flight, and how each ended

vars == << pc, body, validatedInput, generationId, geminiOutput, genIdx, verIdx,
           bullets, validatedOutput, verifications, truthScore, verificationFlags,
           flags, resumePdf, coverPdf, db, response, error, calls, verifier, reply,
           genText, genParsed, verText, verParsed, log,
           peerPc, peerId, client, mongoDb, created, callers >>

\* the other request, and the module state of db/mongodb.js
peerVars == << peerPc, peerId >>
mongoVars == << client, mongoDb, created, callers >>

\* no other request has been received
NoPeer == peerPc = "idle" /\ peerId = Unset

\* db/mongodb.js as loaded: let client = null; let db = null; no call made
MongoAtLoad == client = Null /\ mongoDb = Null /\ created = 0 /\ callers = <<>>

\* what the generator leaves behind, and what the verifier leaves behind
genVars == << genText, genParsed >>
verVars == << verText, verParsed >>

\* geminiService.js / verifierService.js: modelNames.length
NumModels == 4

\* verifierService.js calls the one model gemini-1.5-pro; the later
\* verifierService.js walks modelNames
SingleModel == "single model"
ModelLoop == "model loop"
Verifiers == {SingleModel, ModelLoop}
VerNumModels == IF verifier = ModelLoop THEN NumModels ELSE 1

\* how a model call ends: it raises, it resolves without text, it resolves
\* with text
Reply(call, kind) == [call |-> call, kind |-> kind]

\* response.text of the verifier with the model loop when the response has
\* no text: undefined
UndefinedText == <<Undefined>>

----------------------------------------------------------------------------
(* index.js: POST /api/generate                                            *)

\* a catch block that answers every error other than a ZodError alike
CatchWithoutDetails(err) ==
  /\ error' = Set(err)
  /\ response' = Set(
       IF err.name = "ZodError"
       THEN [status |-> 400, body |-> [error |-> "Invalid input", details |-> err.errors]]
       ELSE [status |-> 500, body |-> [error |-> "Internal server error",
                                       details |-> <<"generation failed">>]])
  /\ pc' = "done"

\* the catch block of the handler: 400 for a ZodError, 500 for anything else
Catch(err) ==
  /\ error' = Set(err)
  /\ response' = Set(
       IF err.name = "ZodError"
       THEN [status |-> 400, body |-> [error |-> "Invalid input", details |-> err.errors]]
       ELSE [status |-> 500, body |-> [error |-> "Internal server error", details |-> err.message]])
  /\ pc' = "done"

\* the fields of the body that generateInputSchema rejects
InputIssues(b) ==
  {f \in {"jobText", "resumeText", "includeCoverLetter", "userId", "jobUrl"} :
      ~ValidInput([ jobText |-> IF f = "jobText" THEN b.jobText ELSE Str(<<"j">>),
                    resumeText |-> IF f = "resumeText" THEN b.resumeText ELSE Str(<<"r">>),
                    includeCoverLetter |-> IF f = "includeCoverLetter" THEN b.includeCoverLetter ELSE Undefined,
                    userId |-> IF f = "userId" THEN b.userId ELSE Undefined,
                    jobUrl |-> IF f = "jobUrl" THEN b.jobUrl ELSE Undefined ])}

\* lines 126-136: parse the body, make the generation id, await fs.mkdir
ValidateInput(ids) ==
  /\ pc = "received"
  /\ IF ValidInput(body)
     THEN /\ validatedInput' = Set(ParsedInput(body))
          /\ \E id \in ids : generationId' = Set(id)
          /\ calls' = Append(calls, <<"mkdir">>)
          /\ pc' = "mkdir"
          /\ UNCHANGED << peerVars, mongoVars, response, error >>
     ELSE /\ Catch([name |-> "ZodError", errors |-> InputIssues(body), message |-> <<"invalid input">>])
          /\ UNCHANGED << peerVars, mongoVars, validatedInput, generationId, calls >>
  /\ UNCHANGED << peerVars, mongoVars,
                  body, geminiOutput, genIdx, verIdx, bullets, validatedOutput,
                  verifications, truthScore, verificationFlags, flags, resumePdf,
                  coverPdf, db, verifier, reply, genVars, verVars, log >>

\* line 136 resolves; line 147 calls generateTailoredResume: first model attempt
MkdirReturns ==
  /\ pc = "mkdir"
  /\ genIdx' = Set(0)
  /\ calls' = Append(calls, <<"gen", 0>>)
  /\ pc' = "gen"
  /\ UNCHANGED << peerVars, mongoVars,
                  body, validatedInput, generationId, geminiOutput, verIdx, bullets,
                  validatedOutput, verifications, truthScore, verificationFlags,
                  flags, resumePdf, coverPdf, db, response, error, verifier, reply,
                  genVars, verVars, log >>

\* a failure of fs.mkdir that escapes the handler: the request ends without
\* a response
MkdirFailsUnanswered ==
  /\ pc = "mkdir"
  /\ error' = Set([name |-> "Error", message |-> <<"mkdir failed">>])
  /\ pc' = "done"
  /\ UNCHANGED << peerVars, mongoVars,
                  body, validatedInput, generationId, geminiOutput, genIdx, verIdx,
                  bullets, validatedOutput, verifications, truthScore,
                  verificationFlags, flags, resumePdf, coverPdf, db, response, calls,
                  verifier, reply, genVars, verVars, log >>

\* line 136 rejects
MkdirFails ==
  /\ pc = "mkdir"
  /\ Catch([name |-> "Error", message |-> <<"mkdir failed">>])
  /\ UNCHANGED << peerVars, mongoVars,
                  body, validatedInput, generationId, geminiOutput, genIdx, verIdx,
                  bullets, validatedOutput, verifications, truthScore,
                  verificationFlags, flags, resumePdf, coverPdf, db, calls, verifier,
                  reply, genVars, verVars, log >>

\* the error of the attempt on variant i that ended as `kind`
GenModelError(kind, i) ==
  [ name |-> "Error",
    message |-> IF kind = "raised" THEN <<"generator model error">>
                ELSE <<"Empty response from Gemini API">>,
    attempt |-> i ]

\* a generator that keeps the error of the first variant and throws that one
\* when the list is exhausted
GenAttemptFailsThrowsFirst ==
  /\ pc = "gen"
  /\ \E kind \in {"raised", "no text"} :
       /\ reply' = Set(Reply(<<"gen", Val(genIdx)>>, kind))
       /\ IF Val(genIdx) = NumModels - 1
          THEN /\ Catch(GenModelError(kind, 0))
               /\ UNCHANGED << peerVars, mongoVars, genIdx, calls >>
          ELSE /\ genIdx' = Set(Val(genIdx) + 1)
               /\ calls' = Append(calls, <<"gen", Val(genIdx) + 1>>)
               /\ UNCHANGED << peerVars, mongoVars, pc, response, error >>
  /\ UNCHANGED << peerVars, mongoVars,
                  body, validatedInput, generationId, geminiOutput, verIdx, bullets,
                  validatedOutput, verifications, truthScore, verificationFlags,
                  flags, resumePdf, coverPdf, db, verifier, genVars, verVars, log >>

\* geminiService.js 30-61: the attempt raised, or returned no text
GenAttemptFails ==
  /\ pc = "gen"
  /\ \E kind \in {"raised", "no text"} :
       /\ reply' = Set(Reply(<<"gen", Val(genIdx)>>, kind))
       /\ IF Val(genIdx) = NumModels - 1
          THEN /\ Catch(GenModelError(kind, Val(genIdx)))
               /\ UNCHANGED << peerVars, mongoVars, genIdx, calls >>
          ELSE /\ genIdx' = Set(Val(genIdx) + 1)
               /\ calls' = Append(calls, <<"gen", Val(genIdx) + 1>>)
               /\ UNCHANGED << peerVars, mongoVars, pc, response, error >>
  /\ UNCHANGED << peerVars, mongoVars,
                  body, validatedInput, generationId, geminiOutput, verIdx, bullets,
                  validatedOutput, verifications, truthScore, verificationFlags,
                  flags, resumePdf, coverPdf, db, verifier, genVars, verVars, log >>

\* generatorOutputSchema.parse returns the members of the schema
GeneratorParsed(o) ==
  [ tailoredResumeJson |-> o.tailoredResumeJson,
    coverLetterText |-> Field(o, "coverLetterText"),
    claimMap |-> o.claimMap,
    suggestedAdditions |-> Field(o, "suggestedAdditions") ]

\* geminiService.js 63-149 on the text of the model
GenOutcome(text) ==
  LET Validated(r, parsedOutput, issues) ==
        IF issues # <<>>
        THEN [kind |-> "validation", value |-> r.value, logged |-> <<>>,
              message |-> IssueReport("Invalid output structure: ", issues)]
        ELSE [kind |-> "returned", value |-> r.value,
              output |-> normalizeUrls(GeneratorParsed(parsedOutput[2]))]
      Preprocessed(r, parsedOutput) ==
        Validated(r, parsedOutput, GeneratorIssues(parsedOutput))
      Recovered(r) ==
        IF ~r.ok
        THEN [kind |-> "recovery", message |-> r.message, logged |-> <<r.logged>>]
        ELSE Preprocessed(r, PreprocessGenerator(r.value))
  IN Recovered(RecoverJsonGuarded(text, "Failed to parse JSON from Gemini response"))

\* geminiService.js 63-105, 116-149: no JSON recovered, or the schema rejects it
GenOutputRejected(texts) ==
  /\ pc = "gen"
  /\ \E text \in texts :
       \E out \in {GenOutcome(text)} :
       /\ out.kind # "returned"
       /\ genText' = Set(text)
       /\ genParsed' = IF out.kind = "validation" THEN Set(out.value) ELSE Unset
       /\ log' = log \o out.logged
       /\ Catch([name |-> "Error", message |-> out.message])
  /\ reply' = Set(Reply(<<"gen", Val(genIdx)>>, "text"))
  /\ UNCHANGED << peerVars, mongoVars,
                  body, validatedInput, generationId, geminiOutput, genIdx, verIdx,
                  bullets, validatedOutput, verifications, truthScore,
                  verificationFlags, flags, resumePdf, coverPdf, db, calls, verifier,
                  verVars >>

\* geminiService.js 116-124: a validated output is returned to line 147
GenReturns(texts) ==
  /\ pc = "gen"
  /\ \E text \in texts :
       \E out \in {GenOutcome(text)} :
       /\ out.kind = "returned"
       /\ genText' = Set(text)
       /\ genParsed' = Set(out.value)
       /\ geminiOutput' = Set(out.output)
  /\ reply' = Set(Reply(<<"gen", Val(genIdx)>>, "text"))
  /\ pc' = "generated"
  /\ UNCHANGED << peerVars, mongoVars,
                  body, validatedInput, generationId, genIdx, verIdx, bullets,
                  validatedOutput, verifications, truthScore, verificationFlags,
                  flags, resumePdf, coverPdf, db, response, error, calls, verifier,
                  verVars, log >>

\* a verifier that never skips the model
NoBulletsNever(bs) == FALSE

\* verifyBullets: if (bullets.length === 0)
NoBullets(bs) == Len(bs) = 0

\* a handler that starts rendering the resume while the verification runs
VerifyBulletsStartAndRender ==
  /\ pc = "generated"
  /\ bullets' = Set(extractAllBullets(Val(geminiOutput).tailoredResumeJson))
  /\ IF Len(Val(bullets')) = 0
     THEN /\ verifications' = Set(<<>>)
          /\ pc' = "verified"
          /\ UNCHANGED << peerVars, mongoVars, verIdx, calls >>
     ELSE /\ verIdx' = Set(0)
          /\ calls' = calls \o << <<"resumePdf">>, <<"ver", 0>> >>
          /\ pc' = "ver"
          /\ UNCHANGED verifications
  /\ UNCHANGED << peerVars, mongoVars,
                  body, validatedInput, generationId, geminiOutput, genIdx,
                  validatedOutput, truthScore, verificationFlags, flags, resumePdf,
                  coverPdf, db, response, error, verifier, reply, genVars, verVars,
                  log >>

\* verifyBullets, up to the first model attempt
VerifyBulletsStart ==
  /\ pc = "generated"
  /\ bullets' = Set(extractAllBullets(Val(geminiOutput).tailoredResumeJson))
  /\ IF NoBullets(Val(bullets'))
     THEN /\ verifications' = Set(<<>>)
          /\ pc' = "verified"
          /\ UNCHANGED << peerVars, mongoVars, verIdx, calls >>
     ELSE /\ verIdx' = Set(0)
          /\ calls' = Append(calls, <<"ver", 0>>)
          /\ pc' = "ver"
          /\ UNCHANGED verifications
  /\ UNCHANGED << peerVars, mongoVars,
                  body, validatedInput, generationId, geminiOutput, genIdx,
                  validatedOutput, truthScore, verificationFlags, flags, resumePdf,
                  coverPdf, db, response, error, verifier, reply, genVars, verVars,
                  log >>

\* the error raised by the call of variant i
VerModelError(i) ==
  [name |-> "Error", message |-> <<"verifier model error">>, attempt |-> i]

\* a verifier that calls a variant that raised a second time before it moves on
VerAttemptFailsRetrying ==
  /\ pc = "ver"
  /\ reply' = Set(Reply(<<"ver", Val(verIdx)>>, "raised"))
  /\ IF reply # Set(Reply(<<"ver", Val(verIdx)>>, "raised"))
     THEN /\ calls' = Append(calls, <<"ver", Val(verIdx)>>)
          /\ UNCHANGED << peerVars, mongoVars, verIdx, pc, response, error >>
     ELSE IF Val(verIdx) = VerNumModels - 1
     THEN /\ Catch(VerModelError(Val(verIdx)))
          /\ UNCHANGED << peerVars, mongoVars, verIdx, calls >>
     ELSE /\ verIdx' = Set(Val(verIdx) + 1)
          /\ calls' = Append(calls, <<"ver", Val(verIdx) + 1>>)
          /\ UNCHANGED << peerVars, mongoVars, pc, response, error >>
  /\ UNCHANGED << peerVars, mongoVars,
                  body, validatedInput, generationId, geminiOutput, genIdx, bullets,
                  validatedOutput, verifications, truthScore, verificationFlags,
                  flags, resumePdf, coverPdf, db, verifier, genVars, verVars, log >>

\* verifyBullets: the attempt raised
VerAttemptFails ==
  /\ pc = "ver"
  /\ reply' = Set(Reply(<<"ver", Val(verIdx)>>, "raised"))
  /\ IF Val(verIdx) = VerNumModels - 1
     THEN /\ Catch(VerModelError(Val(verIdx)))
          /\ UNCHANGED << peerVars, mongoVars, verIdx, calls >>
     ELSE /\ verIdx' = Set(Val(verIdx) + 1)
          /\ calls' = Append(calls, <<"ver", Val(verIdx) + 1>>)
          /\ UNCHANGED << peerVars, mongoVars, pc, response, error >>
  /\ UNCHANGED << peerVars, mongoVars,
                  body, validatedInput, generationId, geminiOutput, genIdx, bullets,
                  validatedOutput, verifications, truthScore, verificationFlags,
                  flags, resumePdf, coverPdf, db, verifier, genVars, verVars, log >>

\* verifyBullets, from its text to the validated verifications.
\* verifierService.js 36-72, 90-96 for the single model; the same steps with
\* the !parsedOutput guard, the preprocessing and the path: message report
\* for the model loop, where text.match throws on an undefined text.
VerOutcome(text) ==
  IF verifier = ModelLoop /\ text = UndefinedText
  THEN [kind |-> "type error", logged |-> <<>>,
        message |-> <<"Cannot read properties of undefined (reading 'match')">>]
  ELSE
  LET Validated(r, parsedOutput, issues) ==
        IF issues # <<>>
        THEN [kind |-> "validation", value |-> r.value, logged |-> <<>>,
              message |-> IF verifier = ModelLoop
                          THEN IssueReport("Invalid verifier output structure: ", issues)
                          ELSE PathReport("Invalid verifier output structure: ", issues)]
        ELSE [kind |-> "returned", value |-> r.value,
              output |-> parsedOutput[2].verifications[2]]
      Preprocessed(r, parsedOutput) ==
        Validated(r, parsedOutput, VerifierIssues(parsedOutput))
      Recovered(r) ==
        IF ~r.ok
        THEN [kind |-> "recovery", message |-> r.message, logged |-> <<r.logged>>]
        ELSE Preprocessed(r, IF verifier = ModelLoop THEN PreprocessVerifier(r.value)
                             ELSE r.value)
  IN Recovered(IF verifier = ModelLoop
               THEN RecoverJsonGuarded(text, "Failed to parse JSON from verifier response")
               ELSE RecoverJson(text, "Failed to parse JSON from verifier response"))

\* the texts a response of the verifier's model may carry in place of `texts`:
\* the old SDK's text() is a string; the new SDK's text may be undefined
VerTexts(texts) == texts \cup (IF verifier = ModelLoop THEN {UndefinedText} ELSE {})

\* a verifier that records the failure and goes on with no verifications
VerOutputRejectedThenIgnored(texts) ==
  /\ pc = "ver"
  /\ \E text \in VerTexts(texts) :
       \E out \in {VerOutcome(text)} :
       /\ out.kind # "returned"
       /\ verText' = Set(text)
       /\ verParsed' = IF out.kind = "validation" THEN Set(out.value) ELSE Unset
       /\ log' = log \o out.logged
       /\ reply' = Set(Reply(<<"ver", Val(verIdx)>>,
                             IF text \in {<<>>, UndefinedText} THEN "no text" ELSE "text"))
       /\ error' = Set([name |-> "Error", message |-> out.message])
  /\ verifications' = Set(<<>>)
  /\ pc' = "verified"
  /\ UNCHANGED << peerVars, mongoVars,
                  body, validatedInput, generationId, geminiOutput, genIdx, verIdx,
                  bullets, validatedOutput, truthScore, verificationFlags, flags,
                  resumePdf, coverPdf, db, response, calls, verifier, genVars >>

\* verifyBullets: text.match on an undefined text, no JSON recovered, or the
\* schema rejects the recovered value
VerOutputRejected(texts) ==
  /\ pc = "ver"
  /\ \E text \in VerTexts(texts) :
       \E out \in {VerOutcome(text)} :
       /\ out.kind # "returned"
       /\ verText' = Set(text)
       /\ verParsed' = IF out.kind = "validation" THEN Set(out.value) ELSE Unset
       /\ log' = log \o out.logged
       /\ reply' = Set(Reply(<<"ver", Val(verIdx)>>,
                             IF text \in {<<>>, UndefinedText} THEN "no text" ELSE "text"))
       /\ Catch([name |-> "Error", message |-> out.message])
  /\ UNCHANGED << peerVars, mongoVars,
                  body, validatedInput, generationId, geminiOutput, genIdx, verIdx,
                  bullets, validatedOutput, verifications, truthScore,
                  verificationFlags, flags, resumePdf, coverPdf, db, calls, verifier,
                  genVars >>

\* verifyBullets: the validated verifications are matched and returned
VerReturns(texts) ==
  /\ pc = "ver"
  /\ \E text \in texts :
       \E out \in {VerOutcome(text)} :
       /\ out.kind = "returned"
       /\ verText' = Set(text)
       /\ verParsed' = Set(out.value)
       /\ validatedOutput' = Set(out.output)
       /\ verifications' = Set(MatchVerifications(Val(bullets), out.output))
  /\ reply' = Set(Reply(<<"ver", Val(verIdx)>>, "text"))
  /\ pc' = "verified"
  /\ UNCHANGED << peerVars, mongoVars,
                  body, validatedInput, generationId, geminiOutput, genIdx, verIdx,
                  bullets, truthScore, verificationFlags, flags, resumePdf, coverPdf,
                  db, response, error, calls, verifier, genVars, log >>

\* generateFlags throws a TypeError when it reads split of a bulletId that
\* is not a string (verifierService.js line 268)
FlagsThrow(verifs) ==
  \E k \in 1..Len(verifs) :
     /\ verifs[k].status = "STRETCH" \/ verifs[k].status = "UNSUPPORTED"
     /\ ~IsStr(verifs[k].bulletId)

\* lines 157-180: score, flags, then await generateResumePDF; an exception of
\* generateFlags goes to the catch of the handler
ScoreAndFlags ==
  /\ pc = "verified"
  /\ truthScore' = Set(calculateTruthScore(Val(verifications)))
  /\ IF FlagsThrow(Val(verifications))
     THEN /\ Catch([name |-> "TypeError", message |-> <<"split of undefined">>])
          /\ UNCHANGED << verificationFlags, flags, calls >>
     ELSE /\ verificationFlags' = Set(generateFlags(Val(verifications)))
          /\ flags' = Set(CombineFlags(Val(verificationFlags'),
                              MissingRequirementFlags(Val(geminiOutput).suggestedAdditions)))
          /\ calls' = Append(calls, <<"resumePdf">>)
          /\ pc' = "resumePdf"
          /\ UNCHANGED << response, error >>
  /\ UNCHANGED << peerVars, mongoVars,
                  body, validatedInput, generationId, geminiOutput, genIdx, verIdx,
                  bullets, validatedOutput, verifications, resumePdf, coverPdf, db,
                  verifier, reply, genVars, verVars, log >>

\* includeCoverLetter && coverLetterText
WantsCover == Val(validatedInput).includeCoverLetter /\ Truthy(Val(geminiOutput).coverLetterText)

\* line 180 resolves; lines 183-223: await generateCoverLetterPDF or getCollections
ResumePdfReturns ==
  /\ pc = "resumePdf"
  /\ resumePdf' = Set(<<"resume.pdf", Val(generationId)>>)
  /\ IF WantsCover
     THEN /\ calls' = Append(calls, <<"coverPdf">>)
          /\ pc' = "coverPdf"
     ELSE /\ calls' = Append(calls, <<"getCollections">>)
          /\ pc' = "getCollections"
  /\ UNCHANGED << peerVars, mongoVars,
                  body, validatedInput, generationId, geminiOutput, genIdx, verIdx,
                  bullets, validatedOutput, verifications, truthScore,
                  verificationFlags, flags, coverPdf, db, response, error, verifier,
                  reply, genVars, verVars, log >>

\* line 219 resolves; line 223: await getCollections
CoverPdfReturns ==
  /\ pc = "coverPdf"
  /\ coverPdf' = <<"cover.pdf", Val(generationId)>>
  /\ calls' = Append(calls, <<"getCollections">>)
  /\ pc' = "getCollections"
  /\ UNCHANGED << peerVars, mongoVars,
                  body, validatedInput, generationId, geminiOutput, genIdx, verIdx,
                  bullets, validatedOutput, verifications, truthScore,
                  verificationFlags, flags, resumePdf, db, response, error, verifier,
                  reply, genVars, verVars, log >>

\* the argument of createGenerationDocument, lines 224-239
GenerationData ==
  [ generationId |-> Val(generationId),
    userId |-> IF Truthy(Val(validatedInput).userId) THEN Val(validatedInput).userId ELSE Str(S_anonymous),
    jobUrl |-> IF Truthy(Val(validatedInput).jobUrl) THEN Val(validatedInput).jobUrl ELSE Null,
    includeCoverLetter |-> Val(validatedInput).includeCoverLetter,
    tailoredResumeJson |-> Val(geminiOutput).tailoredResumeJson,
    claimMap |-> Val(geminiOutput).claimMap,
    suggestedAdditions |-> Val(geminiOutput).suggestedAdditions,
    verifications |-> Val(verifications),
    truthScore |-> Val(truthScore),
    flags |-> Val(flags),
    pdfPath |-> <<"resume.pdf", Val(generationId)>>,
    coverPdfPath |-> coverPdf ]

\* line 223 resolves; line 241: await insertOne
GetCollectionsReturns ==
  /\ pc = "getCollections"
  /\ calls' = Append(calls, <<"insertOne">>)
  /\ pc' = "insertOne"
  /\ UNCHANGED << peerVars, mongoVars,
                  body, validatedInput, generationId, geminiOutput, genIdx, verIdx,
                  bullets, validatedOutput, verifications, truthScore,
                  verificationFlags, flags, resumePdf, coverPdf, db, response, error,
                  verifier, reply, genVars, verVars, log >>

\* line 241 resolves; lines 244-255: the 200 response
InsertReturns ==
  /\ pc = "insertOne"
  /\ \A d \in db : d.id # Val(generationId)
  /\ db' = db \cup {createGenerationDocument(GenerationData)}
  /\ response' = Set(
       [ status |-> 200,
         body |-> [ generationId |-> Val(generationId),
                    truthScore |-> Val(truthScore),
                    flags |-> Val(flags),
                    claimMap |-> Val(geminiOutput).claimMap,
                    verifications |-> Val(verifications),
                    suggestedAdditions |-> OrEmpty(Val(geminiOutput).suggestedAdditions),
                    pdfUrl |-> <<"resume.pdf", Val(generationId)>>,
                    coverLetterPdfUrl |->
                      IF Val(validatedInput).includeCoverLetter /\ coverPdf # Null
                      THEN <<"cover.pdf", Val(generationId)>> ELSE Null ] ])
  /\ pc' = "done"
  /\ UNCHANGED << peerVars, mongoVars,
                  body, validatedInput, generationId, geminiOutput, genIdx, verIdx,
                  bullets, validatedOutput, verifications, truthScore,
                  verificationFlags, flags, resumePdf, coverPdf, error, calls,
                  verifier, reply, genVars, verVars, log >>

\* a rendering or storage call raises: lines 180, 219, 223, 241
LateCallFails ==
  /\ pc \in {"resumePdf", "coverPdf", "getCollections", "insertOne"}
  /\ Catch([name |-> "Error", message |-> <<pc>>])
  /\ UNCHANGED << peerVars, mongoVars,
                  body, validatedInput, generationId, geminiOutput, genIdx, verIdx,
                  bullets, validatedOutput, verifications, truthScore,
                  verificationFlags, flags, resumePdf, coverPdf, db, calls, verifier,
                  reply, genVars, verVars, log >>

\* every variable of the request the model follows
requestVars ==
  << pc, body, validatedInput, generationId, geminiOutput, genIdx, verIdx, bullets,
     validatedOutput, verifications, truthScore, verificationFlags, flags, resumePdf,
     coverPdf, response, error, calls, verifier, reply, genVars, verVars, log >>

\* line 241 when the collection holds the _id already: insertOne raises the
\* duplicate key error of the unique _id index
InsertDuplicate ==
  /\ pc = "insertOne"
  /\ \E d \in db : d.id = Val(generationId)
  /\ Catch([name |-> "MongoServerError", message |-> <<"E11000 duplicate key error">>])
  /\ UNCHANGED << peerVars, mongoVars,
                  body, validatedInput, generationId, geminiOutput, genIdx, verIdx,
                  bullets, validatedOutput, verifications, truthScore,
                  verificationFlags, flags, resumePdf, coverPdf, db, calls, verifier,
                  reply, genVars, verVars, log >>

\* path.join(STORAGE_DIR, generationId)
GenerationDir(id) == <<"storage", id>>

\* Another /api/generate request, followed only where it meets this one: lines
\* 132-136 give it its generationId and its directory, and it goes on to
\* await insertOne at line 241.
PeerGenerates(ids) ==
  /\ peerPc = "idle"
  /\ \E id \in ids : peerId' = Set(id)
  /\ peerPc' = "insertOne"
  /\ UNCHANGED << requestVars, db, mongoVars >>

\* the document of the other request
PeerDocument ==
  createGenerationDocument(
    [ generationId |-> Val(peerId), userId |-> Str(<<"p">>), jobUrl |-> Null,
      includeCoverLetter |-> FALSE, tailoredResumeJson |-> [summary |-> Str(<<"p">>)],
      claimMap |-> <<>>, suggestedAdditions |-> Undefined, verifications |-> <<>>,
      truthScore |-> 0, flags |-> <<>>,
      pdfPath |-> <<"resume.pdf", Val(peerId)>>, coverPdfPath |-> Null ])

\* an insert that replaces the document of the same _id
PeerInsertReplaces ==
  /\ peerPc = "insertOne"
  /\ db' = {d \in db : d.id # Val(peerId)} \cup {PeerDocument}
  /\ peerPc' = "done"
  /\ UNCHANGED << requestVars, peerId, mongoVars >>

\* line 241 of the other request resolves
PeerInsertReturns ==
  /\ peerPc = "insertOne"
  /\ \A d \in db : d.id # Val(peerId)
  /\ db' = db \cup {PeerDocument}
  /\ peerPc' = "done"
  /\ UNCHANGED << requestVars, peerId, mongoVars >>

\* line 241 of the other request raises the duplicate key error
PeerInsertDuplicate ==
  /\ peerPc = "insertOne"
  /\ \E d \in db : d.id = Val(peerId)
  /\ peerPc' = "failed"
  /\ UNCHANGED << requestVars, peerId, db, mongoVars >>

----------------------------------------------------------------------------------------------------------------------------------------
(* db/mongodb.js (src/unnamed/part_009): connectToMongoDB, getDatabase,    *)
(* getCollections. Each call is an entry of callers; a call yields at its  *)
(* awaits, where other calls and the outcome of client.connect() come in.  *)

DbCallKinds == {"getDatabase", "getCollections"}

\* a connect attempt has been rejected
ConnectFailed == \E k \in 1..Len(callers) : callers[k].pc = "rejected" /\ callers[k].attempted

\* a call that has just been made
DbCall(kind, at, attempted) ==
  [ kind |-> kind, pc |-> at, result |-> Unset, attempted |-> attempted,
    afterFailure |-> ConnectFailed ]

\* what a call resolves with once getDatabase has returned `database`:
\* getDatabase returns it, getCollections reads database.collection
Resolved(call, database) ==
  IF call.kind = "getDatabase"
  THEN [call EXCEPT !.pc = "resolved", !.result = database]
  ELSE IF database = Null
       THEN [call EXCEPT !.pc = "rejected", !.result = <<"TypeError">>]
       ELSE [call EXCEPT !.pc = "resolved", !.result = <<"collections", database[2]>>]

\* getDatabase line 40: db is set, no connect
CallWithDb ==
  /\ Len(callers) < MaxDbCalls
  /\ mongoDb # Null
  /\ \E kind \in DbCallKinds :
        callers' = Append(callers, Resolved(DbCall(kind, "called", FALSE), mongoDb))
  /\ UNCHANGED << requestVars, db, peerVars, client, mongoDb, created >>

\* getDatabase line 40, connectToMongoDB lines 19-21: db is null and client
\* is set, so connectToMongoDB returns client and getDatabase awaits that
CallWhileClient ==
  /\ Len(callers) < MaxDbCalls
  /\ mongoDb = Null
  /\ client # Null
  /\ \E kind \in DbCallKinds :
        callers' = Append(callers, DbCall(kind, "awaitConnect", FALSE))
  /\ UNCHANGED << requestVars, db, peerVars, client, mongoDb, created >>

\* connectToMongoDB lines 19-25: client is null; new MongoClient, then await
\* client.connect()
CallConnects ==
  /\ Len(callers) < MaxDbCalls
  /\ mongoDb = Null
  /\ client = Null
  /\ client' = <<"client", created + 1>>
  /\ created' = created + 1
  /\ \E kind \in DbCallKinds :
        callers' = Append(callers, DbCall(kind, "connecting", TRUE))
  /\ UNCHANGED << requestVars, db, peerVars, mongoDb >>

\* client.connect() resolves; lines 26-28: db = client.db(...), return client
ConnectResolves ==
  /\ \E k \in 1..Len(callers) :
        /\ callers[k].pc = "connecting"
        /\ callers' = [callers EXCEPT ![k].pc = "awaitConnect"]
  /\ mongoDb' = <<"db", client[2]>>
  /\ UNCHANGED << requestVars, db, peerVars, client, created >>

\* client.connect() rejects; lines 29-32: log and rethrow; client stays set
ConnectRejects ==
  /\ \E k \in 1..Len(callers) :
        /\ callers[k].pc = "connecting"
        /\ callers' = [callers EXCEPT ![k].pc = "rejected", ![k].result = <<"connect">>]
  /\ UNCHANGED << requestVars, db, peerVars, client, mongoDb, created >>

\* getDatabase line 43 after its await: return db, whatever it is now
GetDatabaseResumes ==
  /\ \E k \in 1..Len(callers) :
        /\ callers[k].pc = "awaitConnect"
        /\ callers' = [callers EXCEPT ![k] = Resolved(callers[k], mongoDb)]
  /\ UNCHANGED << requestVars, db, peerVars, client, mongoDb, created >>

----------------
(* The inputs the model draws from.                                        *)

SeqsUpTo(S, n) == UNION {[1..k -> S] : k \in 0..n}

Statuses == {"SUPPORTED", "STRETCH", "UNSUPPORTED"}

Verification(text, status, id, reason, evidence, fix) ==
  [ bulletText |-> text, status |-> status, reason |-> reason,
    evidence |-> evidence, suggestedFix |-> fix, bulletId |-> id ]

Resume(summary, experience, projects, education) ==
  [ summary |-> summary, experience |-> experience, projects |-> projects,
    education |-> education ]

GeneratorOutput(tr, cover, additions) ==
  [ tailoredResumeJson |-> tr, coverLetterText |-> cover,
    claimMap |-> << [bulletText |-> <<"a">>, section |-> "experience"] >>,
    suggestedAdditions |-> additions ]

Addition(requirement, fix) ==
  [ requirement |-> requirement, reason |-> "not in resume", suggestedText |-> fix ]

\* request bodies, valid and invalid
Bodies ==
  [ jobText : {Undefined, Str(<<"j">>)},
    resumeText : {Str(<<>>), Str(<<"r">>)},
    includeCoverLetter : {Undefined, Bool(TRUE), Bool(FALSE), Str(<<"y">>)},
    userId : {Undefined, Str(<<"u">>)},
    jobUrl : {Undefined, Str(<<>>), Str(<<"h", ":", "x">>), Str(<<"x">>)} ]

GenIds == {"gen_1_a", "gen_1_b"}

\* schema-valid tailored resumes the generator returns in the full pipeline
PipelineResumes ==
  { Resume(Str(<<"a", "b">>), Arr(<< [bullets |-> Arr(<< [text |-> <<"a">>] >>)] >>),
           Undefined, Undefined),
    Resume(Str(<<"a">>), Arr(<<>>),
           Arr(<< [bullets |-> Arr(<< [text |-> <<"b">>] >>)] >>), Undefined) }

PipelineGenOutputs ==
  { GeneratorOutput(tr, cover, adds) :
      tr \in PipelineResumes,
      cover \in {Undefined, Str(<<"c">>)},
      adds \in {Undefined, Arr(<< Addition("q1", Str(<<"f">>)), Addition("q2", Undefined) >>)} }

\* schema-valid verifier outputs in the full pipeline
PipelineVerOutputs ==
  { <<>>,
    << Verification(<<"a", "b">>, "SUPPORTED", Undefined, "r1", "e1", Undefined) >>,
    << Verification(<<"a">>, "STRETCH", Undefined, "r1", "e1", Str(<<"f">>)),
       Verification(<<"b">>, "UNSUPPORTED", Str(<<"x", "_", "1">>), "r2", "none", Undefined) >>,
    << Verification(<<"a">>, "SUPPORTED", Undefined, "r1", "e1", Undefined),
       Verification(<<"a", "b">>, "SUPPORTED", Undefined, "r1", "e1", Undefined) >> }

\* the forms a model wraps a JSON object in
FencedJson(o) == <<Fence, JsonTag, Space, Open, Members(o), Close, Space, Fence>>
BareJson(o) == <<Open, Members(o), Close>>
ProseThenJson(o) == <<Prose, Space, Open, Members(o), Close>>

\* the object the verifier's model is asked for
VerifierPayload(vs) == [verifications |-> Arr(vs)]

PlainResume ==
  Resume(Str(<<"a">>), Arr(<< [bullets |-> Arr(<< [text |-> <<"b">>] >>)] >>),
         Undefined, Undefined)

\* the texts of the generator's model in the full pipeline: every pipeline
\* output fenced, one of them bare and one with a null cover letter, a text
\* without JSON, the literal 0, an output without summary, and an output with a
\* null suggestedText
PipelineGenTexts ==
  { FencedJson(o) : o \in PipelineGenOutputs }
  \cup { ProseThenJson(GeneratorOutput(PlainResume, Undefined, Undefined)),
         BareJson(GeneratorOutput(PlainResume, Null, Undefined)),
         <<Prose, Prose>>,
         <<Zero>>,
         BareJson(GeneratorOutput(Resume(Undefined, Arr(<<>>), Undefined, Undefined),
                                  Undefined, Undefined)),
         BareJson(GeneratorOutput(PlainResume, Undefined,
                                  Arr(<< Addition("q1", Null) >>))) }

\* the texts of the verifier's model in the full pipeline: every pipeline
\* output fenced, an empty text, a text without JSON, the literal 0, and
\* outputs with a null suggestedFix, a null bulletId, an unknown status
PipelineVerTexts ==
  { FencedJson(VerifierPayload(vs)) : vs \in PipelineVerOutputs }
  \cup { <<>>,
         <<Prose>>,
         <<Zero>>,
         BareJson(VerifierPayload(
           << Verification(<<"a">>, "SUPPORTED", Undefined, "r1", "e1", Null) >>)),
         BareJson(VerifierPayload(
           << Verification(<<"a">>, "SUPPORTED", Null, "r1", "e1", Undefined) >>)),
         BareJson(VerifierPayload(
           << Verification(<<"a">>, "MAYBE", Undefined, "r1", "e1", Undefined),
              Verification(<<"b">>, "SUPPORTED", Null, "r1", "e1", Undefined) >>)) }

\* inputs of extractAllBullets
ExtractTexts == {<<"a">>, <<"a", "b">>}
\* n bullets whose texts alternate, starting with `first`
AlternatingBullets(n, first) ==
  [j \in 1..n |-> [text |-> IF j % 2 = 1 THEN first ELSE CHOOSE t \in ExtractTexts : t # first]]
BulletInputs ==
  {Undefined} \cup {Arr(AlternatingBullets(n, first)) : n \in 0..MaxBullets, first \in ExtractTexts}
EntryInputs == {[bullets |-> b] : b \in BulletInputs}
ExtractInputs ==
  { Resume(summary, experience, projects, education) :
      summary \in {Undefined, Str(<<"a", "b">>)},
      experience \in {Undefined} \cup {Arr(e) : e \in SeqsUpTo(EntryInputs, MaxExperience)},
      projects \in {Undefined} \cup {Arr(e) : e \in SeqsUpTo(EntryInputs, MaxProjects)},
      education \in {Undefined, Arr(<< [degree |-> "BSc"] >>)} }

\* schema-valid resumes given to verifyBullets, and the verifier model's outputs
VerifyResumes ==
  { Resume(Str(summary), Arr(experience), Undefined, Undefined) :
      summary \in {<<"a">>, <<"a", "b">>},
      experience \in {<<>>} \cup
         { << [bullets |-> Arr(b)] >> :
              b \in SeqsUpTo({[text |-> t] : t \in {<<"a">>, <<"b">>}}, MaxVerifyBullets) \ {<<>>} } }
ModelVerifications ==
  { Verification(text, IF text = <<"c">> THEN "UNSUPPORTED" ELSE "SUPPORTED", id,
                 "r1", "e1", Undefined) :
      text \in {<<>>, <<"a">>, <<"a", "b">>, <<"b">>, <<"c">>},
      id \in {Undefined, Str(<<>>), Str(<<"x", "_", "1">>)} }
WideVerOutputs == SeqsUpTo(ModelVerifications, MaxModelVerifs)
WideVerTexts == { BareJson(VerifierPayload(vs)) : vs \in WideVerOutputs }

\* inputs of calculateTruthScore
ScoreVerification(status) ==
  Verification(<<"a">>, status, Str(S_summary \o <<"_", "0">>), "r1", "e1", Undefined)
ScoreInputs ==
  { [k \in 1..Len(st) |-> ScoreVerification(st[k])] : st \in SeqsUpTo(Statuses, MaxScoreLen) }
  \cup { [k \in 1..n |-> ScoreVerification(status)] : n \in 1..MaxRunLen, status \in Statuses }

\* inputs of generateFlags and of the flag concatenation
FlagVerifications ==
  { Verification(<<"a">>, status, Str(id), d.reason, d.evidence, d.fix) :
      status \in Statuses,
      id \in {PositionId(S_experience, 0, 1), S_bullet \o <<"_", "1">>},
      d \in { [reason |-> "r1", evidence |-> "none", fix |-> Undefined],
              [reason |-> "r2", evidence |-> "e1", fix |-> Str(<<"f">>)] } }
FlagInputs == SeqsUpTo(FlagVerifications, MaxFlagLen)
AdditionInputs ==
  {Undefined} \cup
  { Arr(a) : a \in SeqsUpTo({Addition("q1", Str(<<"f">>)), Addition("q2", Undefined)},
                            MaxAdditions) }

\* texts given to the JSON recovery of the generator and of the verifier
GenTokens ==
  { Fence, JsonTag, Space, Prose, Zero, Open, Close,
    Members(GeneratorOutput(PlainResume, Undefined, Undefined)) }
VerTokens ==
  { Fence, Space, Prose, Zero, Open, Close,
    Members(VerifierPayload(
      << Verification(<<"b">>, "SUPPORTED", Undefined, "r1", "e1", Undefined) >>)) }
LongTexts == { [k \in 1..n |-> Prose] : n \in (DiagnosticLimit - 1)..MaxLongText }
GenRecoveryTexts == SeqsUpTo(GenTokens, MaxTextLen) \cup LongTexts
VerRecoveryTexts == SeqsUpTo(VerTokens, MaxTextLen) \cup LongTexts

\* objects given to generatorOutputSchema and to verifierOutputSchema
SchemaResumes ==
  { Resume(summary, experience, Undefined, Undefined) :
      summary \in {Undefined, Null, Str(<<>>), Str(<<"a">>)},
      experience \in { Undefined, Arr(<<>>), Arr(<< [bullets |-> Arr(<<>>)] >>),
                       Arr(<< [bullets |-> Arr(<< [text |-> <<"b">>] >>)] >>) } }
SchemaAdditions ==
  {Undefined, Null} \cup { Arr(<< Addition("q1", fix) >>) : fix \in {Undefined, Null, Str(<<"f">>)} }
GenPayloads ==
  { GeneratorOutput(tr, cover, adds) :
      tr \in SchemaResumes, cover \in {Undefined, Null, Str(<<"c">>)}, adds \in SchemaAdditions }
  \cup { [coverLetterText |-> cover, suggestedAdditions |-> Undefined] :
           cover \in {Undefined, Null} }
SchemaVerifications ==
  { Verification(<<"b">>, status, id, "r1", "e1", fix) :
      status \in {"SUPPORTED", "MAYBE"},
      id \in {Undefined, Null, Str(<<"x", "_", "1">>)},
      fix \in {Undefined, Null, Str(<<"f">>)} }
VerPayloads ==
  { VerifierPayload(vs) : vs \in SeqsUpTo(SchemaVerifications, MaxModelVerifs) }
  \cup { EmptyObject }
GenOutputTexts == GenRecoveryTexts \cup { BareJson(o) : o \in GenPayloads }
VerOutputTexts == VerRecoveryTexts \cup { BareJson(o) : o \in VerPayloads }

----------------------------------------------------------------------------
(* Specifications.                                                         *)

Init ==
  /\ pc = "received"
  /\ body \in Bodies
  /\ validatedInput = Unset
  /\ generationId = Unset
  /\ geminiOutput = Unset
  /\ genIdx = Unset
  /\ verIdx = Unset
  /\ bullets = Unset
  /\ validatedOutput = Unset
  /\ verifications = Unset
  /\ truthScore = Unset
  /\ verificationFlags = Unset
  /\ flags = Unset
  /\ resumePdf = Unset
  /\ coverPdf = Null
  /\ db = {}
  /\ response = Unset
  /\ error = Unset
  /\ calls = <<>>
  /\ verifier \in Verifiers
  /\ reply = Unset
  /\ genText = Unset
  /\ genParsed = Unset
  /\ verText = Unset
  /\ verParsed = Unset
  /\ log = <<>>
  /\ NoPeer
  /\ MongoAtLoad

Next ==
  \/ ValidateInput(GenIds)
  \/ MkdirReturns
  \/ MkdirFails
  \/ GenAttemptFails
  \/ GenOutputRejected(PipelineGenTexts)
  \/ GenReturns(PipelineGenTexts)
  \/ VerifyBulletsStart
  \/ VerAttemptFails
  \/ VerOutputRejected(PipelineVerTexts)
  \/ VerReturns(PipelineVerTexts)
  \/ ScoreAndFlags
  \/ ResumePdfReturns
  \/ CoverPdfReturns
  \/ GetCollectionsReturns
  \/ InsertReturns
  \/ LateCallFails

Spec == Init /\ [][Next]_vars

\* a request whose generation has just returned `out`
DefaultBody ==
  [ jobText |-> Str(<<"j">>), resumeText |-> Str(<<"r">>),
    includeCoverLetter |-> Undefined, userId |-> Undefined, jobUrl |-> Undefined ]

AfterGeneration(out) ==
  /\ body = DefaultBody
  /\ validatedInput = Set(ParsedInput(DefaultBody))
  /\ generationId = Set("gen_1_a")
  /\ geminiOutput = Set(out)
  /\ genIdx = Set(0)
  /\ resumePdf = Unset
  /\ coverPdf = Null
  /\ db = {}
  /\ response = Unset
  /\ error = Unset
  /\ log = <<>>
  /\ NoPeer
  /\ MongoAtLoad

\* the generator has returned `out` from a fenced text of the first variant
GeneratedFromText(out) ==
  /\ reply = Set(Reply(<<"gen", 0>>, "text"))
  /\ genText = Set(FencedJson(out))
  /\ genParsed = Set(Obj(out))
  /\ verText = Unset
  /\ verParsed = Unset

\* a request whose verification has just returned `vs`, all of them carrying
\* an id supplied by the model
AfterVerification(out, vs) ==
  /\ AfterGeneration(out)
  /\ pc = "verified"
  /\ verIdx = Set(0)
  /\ bullets = Set(extractAllBullets(out.tailoredResumeJson))
  /\ validatedOutput = Set(vs)
  /\ verifications = Set(MatchVerifications(Val(bullets), vs))
  /\ truthScore = Unset
  /\ verificationFlags = Unset
  /\ flags = Unset
  /\ calls = << <<"mkdir">>, <<"gen", 0>>, <<"ver", 0>> >>
  /\ verifier = ModelLoop
  /\ reply = Set(Reply(<<"ver", 0>>, "text"))
  /\ genText = Set(FencedJson(out))
  /\ genParsed = Set(Obj(out))
  /\ verText = Set(BareJson(VerifierPayload(vs)))
  /\ verParsed = Set(Obj(VerifierPayload(vs)))

\* the claim extractor on its own
InitExtract ==
  /\ \E tr \in ExtractInputs : AfterGeneration(GeneratorOutput(tr, Undefined, Undefined))
  /\ verifier \in Verifiers
  /\ reply = Set(Reply(<<"gen", 0>>, "text"))
  /\ genText = Unset
  /\ genParsed = Unset
  /\ verText = Unset
  /\ verParsed = Unset
  /\ pc = "generated"
  /\ verIdx = Unset
  /\ bullets = Unset
  /\ validatedOutput = Unset
  /\ verifications = Unset
  /\ truthScore = Unset
  /\ verificationFlags = Unset
  /\ flags = Unset
  /\ calls = << <<"mkdir">>, <<"gen", 0>> >>

NextExtract == VerifyBulletsStart

SpecExtract == InitExtract /\ [][NextExtract]_vars

\* the bullet verifier on its own
InitVerify ==
  /\ \E tr \in VerifyResumes :
        /\ AfterGeneration(GeneratorOutput(tr, Undefined, Undefined))
        /\ GeneratedFromText(GeneratorOutput(tr, Undefined, Undefined))
  /\ verifier \in Verifiers
  /\ pc = "generated"
  /\ verIdx = Unset
  /\ bullets = Unset
  /\ validatedOutput = Unset
  /\ verifications = Unset
  /\ truthScore = Unset
  /\ verificationFlags = Unset
  /\ flags = Unset
  /\ calls = << <<"mkdir">>, <<"gen", 0>> >>

NextVerify ==
  \/ VerifyBulletsStart
  \/ VerReturns(WideVerTexts)
  \/ ScoreAndFlags

SpecVerify == InitVerify /\ [][NextVerify]_vars

\* the truth scorer on its own
InitScore ==
  \E vs \in ScoreInputs :
     AfterVerification(GeneratorOutput(PlainResume, Undefined, Undefined), vs)

NextScore == ScoreAndFlags

SpecScore == InitScore /\ [][NextScore]_vars

\* the flag synthesizer on its own
InitFlags ==
  \E vs \in FlagInputs, adds \in AdditionInputs :
     AfterVerification(GeneratorOutput(PlainResume, Undefined, adds), vs)

NextFlags == ScoreAndFlags

SpecFlags == InitFlags /\ [][NextFlags]_vars

\* the handling of a model's text on its own: generateTailoredResume awaiting
\* its first variant, or verifyBullets awaiting its first variant
InitOutput ==
  /\ body = DefaultBody
  /\ validatedInput = Set(ParsedInput(DefaultBody))
  /\ generationId = Set("gen_1_a")
  /\ validatedOutput = Unset
  /\ verifications = Unset
  /\ truthScore = Unset
  /\ verificationFlags = Unset
  /\ flags = Unset
  /\ resumePdf = Unset
  /\ coverPdf = Null
  /\ db = {}
  /\ response = Unset
  /\ error = Unset
  /\ log = <<>>
  /\ NoPeer
  /\ MongoAtLoad
  /\ genIdx = Set(0)
  /\ verText = Unset
  /\ verParsed = Unset
  /\ \/ /\ pc = "gen"
        /\ verifier = ModelLoop
        /\ geminiOutput = Unset
        /\ verIdx = Unset
        /\ bullets = Unset
        /\ reply = Unset
        /\ genText = Unset
        /\ genParsed = Unset
        /\ calls = << <<"mkdir">>, <<"gen", 0>> >>
     \/ /\ pc = "ver"
        /\ verifier \in Verifiers
        /\ geminiOutput = Set(GeneratorOutput(PlainResume, Undefined, Undefined))
        /\ verIdx = Set(0)
        /\ bullets = Set(extractAllBullets(PlainResume))
        /\ reply = Set(Reply(<<"gen", 0>>, "text"))
        /\ genText = Set(FencedJson(GeneratorOutput(PlainResume, Undefined, Undefined)))
        /\ genParsed = Set(Obj(GeneratorOutput(PlainResume, Undefined, Undefined)))
        /\ calls = << <<"mkdir">>, <<"gen", 0>>, <<"ver", 0>> >>

NextOutput ==
  \/ GenOutputRejected(GenOutputTexts)
  \/ GenReturns(GenOutputTexts)
  \/ VerOutputRejected(VerOutputTexts)
  \/ VerReturns(VerOutputTexts)

SpecOutput == InitOutput /\ [][NextOutput]_vars

\* values of a link field in the generator's payload: absent, https, http,
\* another scheme, no scheme, and no scheme behind the letters http
LinkValues ==
  { Undefined,
    Str(<<"h", "t", "t", "p", "s", ":", "/", "/", "x">>),
    Str(<<"h", "t", "t", "p", ":", "/", "/", "x">>),
    Str(<<"f", "t", "p", ":", "/", "/", "x">>),
    Str(<<"x", ".", "y">>),
    Str(<<"h", "t", "t", "p", "x">>) }
LinkProjects == { [bullets |-> Undefined, url |-> u] : u \in LinkValues }
LinkResumes ==
  { [ basics |-> [links |-> [linkedIn |-> a, github |-> b, portfolio |-> c, website |-> d]],
      summary |-> Str(<<"a">>), experience |-> PlainResume.experience,
      projects |-> Arr(ps), education |-> Undefined ] :
      a \in LinkValues, b \in LinkValues,
      c \in {Undefined, Str(<<"f", "t", "p", ":", "/", "/", "x">>)},
      d \in {Undefined, Str(<<"x", ".", "y">>)},
      ps \in SeqsUpTo(LinkProjects, MaxProjects) }
  \cup { [ basics |-> [name |-> "n"], summary |-> Str(<<"a">>),
           experience |-> PlainResume.experience,
           projects |-> Undefined, education |-> Undefined ] }
LinkTexts == { BareJson(GeneratorOutput(tr, Undefined, Undefined)) : tr \in LinkResumes }

\* generateTailoredResume on payloads that carry links
InitLinks == InitOutput /\ pc = "gen"

NextLinks ==
  \/ GenOutputRejected(LinkTexts)
  \/ GenReturns(LinkTexts)

SpecLinks == InitLinks /\ [][NextLinks]_vars

\* two requests: the one the model follows, with one answer of each model,
\* and another one
IdsBodies == { DefaultBody, [DefaultBody EXCEPT !.includeCoverLetter = Bool(TRUE)] }
IdsGenTexts ==
  { FencedJson(GeneratorOutput(PlainResume, Str(<<"c">>),
                               Arr(<< Addition("q1", Str(<<"f">>)) >>))) }
IdsVerTexts ==
  { FencedJson(VerifierPayload(
      << Verification(<<"b">>, "STRETCH", Undefined, "r1", "e1", Undefined) >>)) }

InitIds == Init /\ body \in IdsBodies

NextIds ==
  \/ ValidateInput(GenIds)
  \/ MkdirReturns
  \/ GenReturns(IdsGenTexts)
  \/ VerifyBulletsStart
  \/ VerReturns(IdsVerTexts)
  \/ ScoreAndFlags
  \/ ResumePdfReturns
  \/ CoverPdfReturns
  \/ GetCollectionsReturns
  \/ InsertReturns
  \/ InsertDuplicate
  \/ PeerGenerates(GenIds)
  \/ PeerInsertReturns
  \/ PeerInsertDuplicate

SpecIds == InitIds /\ [][NextIds]_vars

\* the database module under concurrent calls, no request in progress
InitDb == Init /\ body = DefaultBody /\ verifier = SingleModel

NextDb ==
  \/ CallWithDb
  \/ CallWhileClient
  \/ CallConnects
  \/ ConnectResolves
  \/ ConnectRejects
  \/ GetDatabaseResumes

SpecDb == InitDb /\ [][NextDb]_vars

\* one request whose every external call returns or raises: the event loop
\* runs the continuation of a settled call, so a step that is possible is
\* eventually taken
LiveBodies == IdsBodies \cup { [DefaultBody EXCEPT !.jobText = Undefined] }
LiveGenTexts == IdsGenTexts \cup { <<Prose>> }
LiveVerTexts == IdsVerTexts \cup { <<Prose>> }

InitLive == Init /\ body \in LiveBodies

NextLive ==
  \/ ValidateInput(GenIds)
  \/ MkdirReturns
  \/ MkdirFails
  \/ GenAttemptFails
  \/ GenOutputRejected(LiveGenTexts)
  \/ GenReturns(LiveGenTexts)
  \/ VerifyBulletsStart
  \/ VerAttemptFails
  \/ VerOutputRejected(LiveVerTexts)
  \/ VerReturns(LiveVerTexts)
  \/ ScoreAndFlags
  \/ ResumePdfReturns
  \/ CoverPdfReturns
  \/ GetCollectionsReturns
  \/ InsertReturns
  \/ LateCallFails

SpecLive == InitLive /\ [][NextLive]_vars /\ WF_vars(NextLive)

----------------------------------------------------------------------------
(* Properties of the truth scorer (SpecScore).                             *)

StatusesOf(verifs) == [k \in 1..Len(verifs) |-> verifs[k].status]
CountStatus(verifs, status) ==
  Cardinality({k \in 1..Len(verifs) : verifs[k].status = status})
Repeated(status, n) == [k \in 1..n |-> status]

\* C1: for a non-empty verification list with s STRETCH and u UNSUPPORTED
\* entries the score is max(0, 100 - 8*s - 20*u); [SUPPORTED] gives 100,
\* [UNSUPPORTED] gives 80, [STRETCH, STRETCH, UNSUPPORTED] gives 64 and fifteen
\* UNSUPPORTED give 0.
C1_ScoreIsClampedPenaltySum ==
  (IsSet(truthScore) /\ Len(Val(verifications)) > 0) =>
     LET vs == Val(verifications)
         raw == 100 - 8 * CountStatus(vs, "STRETCH") - 20 * CountStatus(vs, "UNSUPPORTED")
     IN  /\ Val(truthScore) = (IF raw < 0 THEN 0 ELSE raw)
         /\ StatusesOf(vs) = <<"SUPPORTED">> => Val(truthScore) = 100
         /\ StatusesOf(vs) = <<"UNSUPPORTED">> => Val(truthScore) = 80
         /\ StatusesOf(vs) = <<"STRETCH", "STRETCH", "UNSUPPORTED">> => Val(truthScore) = 64
         /\ StatusesOf(vs) = Repeated("UNSUPPORTED", 15) => Val(truthScore) = 0

\* the scorer has scored [STRETCH, STRETCH, UNSUPPORTED]
C1_Witness ==
  /\ IsSet(truthScore)
  /\ StatusesOf(Val(verifications)) = <<"STRETCH", "STRETCH", "UNSUPPORTED">>
  /\ Val(truthScore) = 64

\* C2: the score is an integer in [0, 100] for every verification list, and
\* it is 0 for the empty list.
C2_ScoreInRange ==
  IsSet(truthScore) =>
     /\ Val(truthScore) \in 0..100
     /\ Len(Val(verifications)) = 0 => Val(truthScore) = 0

\* the scorer has scored the empty list
C2_Witness ==
  /\ IsSet(truthScore)
  /\ Len(Val(verifications)) = 0
  /\ Val(truthScore) = 0

----------------------------------------------------------------------------
(* Properties of the flag synthesizer (SpecFlags, Spec).                   *)

Adverse(verifs) ==
  {k \in 1..Len(verifs) : verifs[k].status \in {"STRETCH", "UNSUPPORTED"}}

\* the position among the flags of the flag of adverse verification k
Rank(verifs, k) == Cardinality({m \in Adverse(verifs) : m <= k})

CarriesVerification(flag, v) ==
  /\ flag.bulletId = v.bulletId
  /\ flag.bulletText = Str(v.bulletText)
  /\ flag.status = v.status
  /\ flag.reason = v.reason
  /\ flag.evidence = v.evidence
  /\ flag.suggestedFix = v.suggestedFix

\* C3: generateFlags gives exactly one flag per STRETCH or UNSUPPORTED
\* verification and none for a SUPPORTED one, in the order of the
\* verifications, each flag carrying the fields of its verification.
C3_OneFlagPerAdverseVerification ==
  IsSet(verificationFlags) =>
     LET vs == Val(verifications)
         fs == Val(verificationFlags)
     IN  /\ Len(fs) = Cardinality(Adverse(vs))
         /\ \A k \in Adverse(vs) : CarriesVerification(fs[Rank(vs, k)], vs[k])

\* flags were made of a STRETCH, a SUPPORTED and an UNSUPPORTED verification
C3_Witness ==
  /\ IsSet(verificationFlags)
  /\ StatusesOf(Val(verifications)) = <<"STRETCH", "SUPPORTED", "UNSUPPORTED">>
  /\ Val(verifications)[1].reason # Val(verifications)[3].reason
  /\ Len(Val(verificationFlags)) = 2

\* C4: the flags of a successful response are the verification-derived flags
\* in verification order, then one MISSING_REQUIREMENT flag per suggested
\* addition in the additions' order, each with a null bulletId, a null
\* bulletText and its requirement; their number is #STRETCH + #UNSUPPORTED
\* + #additions.
C4_ResponseFlagsOrder ==
  (IsSet(response) /\ Val(response).status = 200) =>
     LET fl == Val(response).body.flags
         vs == Val(response).body.verifications
         adds == OrEmpty(Val(geminiOutput).suggestedAdditions)
         nv == Cardinality(Adverse(vs))
     IN  /\ Len(fl) = nv + Len(adds)
         /\ \A k \in Adverse(vs) : CarriesVerification(fl[Rank(vs, k)], vs[k])
         /\ \A k \in 1..Len(adds) :
               /\ fl[nv + k].status = "MISSING_REQUIREMENT"
               /\ fl[nv + k].bulletId = Null
               /\ fl[nv + k].bulletText = Null
               /\ fl[nv + k].requirement = adds[k].requirement

\* a response with flags of both families, two of them missing requirements
C4_Witness ==
  /\ IsSet(response)
  /\ Val(response).status = 200
  /\ Cardinality(Adverse(Val(verifications))) = 2
  /\ Len(OrEmpty(Val(geminiOutput).suggestedAdditions)) = 2
  /\ Len(Val(response).body.flags) = 4

----------------------------------------------------------------------------
(* Properties of the claim extractor (SpecExtract).                        *)

IdsOf(bs) == [k \in 1..Len(bs) |-> bs[k].bulletId]

\* the positions <<section rank, entry, bullet>> (zero-based) of the texts a
\* tailored resume holds: the summary, the bullets of the experience entries
\* and the bullets of the project entries
SectionKeys(rank, section) ==
  IF IsArr(section)
  THEN UNION { IF IsArr(section[2][i].bullets)
               THEN { <<rank, i - 1, j - 1>> : j \in 1..Len(section[2][i].bullets[2]) }
               ELSE {} : i \in 1..Len(section[2]) }
  ELSE {}

BulletKeys(tr) ==
  (IF IsStr(tr.summary) THEN {<<0, 0, 0>>} ELSE {})
    \cup SectionKeys(1, tr.experience) \cup SectionKeys(2, tr.projects)

KeyLess(p, q) ==
  \/ p[1] < q[1]
  \/ p[1] = q[1] /\ p[2] < q[2]
  \/ p[1] = q[1] /\ p[2] = q[2] /\ p[3] < q[3]

\* the k-th key in summary, experience, projects order
KthKey(keys, k) ==
  CHOOSE key \in keys : Cardinality({q \in keys : KeyLess(q, key)}) = k - 1

\* the identifier and the text the specification gives the bullet at a key
KeyId(key) ==
  IF key[1] = 0 THEN <<"s", "u", "m", "m", "a", "r", "y", "_", "0">>
  ELSE (IF key[1] = 1 THEN <<"e", "x", "p", "e", "r", "i", "e", "n", "c", "e">>
        ELSE <<"p", "r", "o", "j", "e", "c", "t", "s">>)
       \o <<"_", Digits[key[2] + 1], "_", Digits[key[3] + 1]>>

KeyText(tr, key) ==
  IF key[1] = 0 THEN tr.summary[2]
  ELSE (IF key[1] = 1 THEN tr.experience ELSE tr.projects)[2][key[2] + 1].bullets[2][key[3] + 1].text

BulletCounts(section) ==
  IF IsArr(section)
  THEN [i \in 1..Len(section[2]) |->
          IF IsArr(section[2][i].bullets) THEN Len(section[2][i].bullets[2]) ELSE 0]
  ELSE <<>>

\* C5: the extracted bullets are exactly the summary (id summary_0) if
\* present, then the bullets of the experience entries, then the bullets of
\* the project entries, each in the given order with ids experience_i_j and
\* projects_i_j; education and entries without bullets give nothing.
C5_ExtractionOrder ==
  IsSet(bullets) =>
     LET tr == Val(geminiOutput).tailoredResumeJson
         bs == Val(bullets)
         keys == BulletKeys(tr)
     IN  /\ Len(bs) = Cardinality(keys)
         /\ \A k \in 1..Len(bs) :
               /\ bs[k].bulletId = KeyId(KthKey(keys, k))
               /\ bs[k].bulletText = KeyText(tr, KthKey(keys, k))
         /\ (/\ IsStr(tr.summary)
             /\ BulletCounts(tr.experience) = <<2>>
             /\ BulletCounts(tr.projects) = <<1>>)
            => IdsOf(bs) = << <<"s", "u", "m", "m", "a", "r", "y", "_", "0">>,
                              <<"e", "x", "p", "e", "r", "i", "e", "n", "c", "e", "_", "0", "_", "0">>,
                              <<"e", "x", "p", "e", "r", "i", "e", "n", "c", "e", "_", "0", "_", "1">>,
                              <<"p", "r", "o", "j", "e", "c", "t", "s", "_", "0", "_", "0">> >>

\* a resume with a summary, one experience entry with two bullets, one project
\* with one bullet and an education entry has been extracted
C5_Witness ==
  /\ IsSet(bullets)
  /\ IsStr(Val(geminiOutput).tailoredResumeJson.summary)
  /\ BulletCounts(Val(geminiOutput).tailoredResumeJson.experience) = <<2>>
  /\ BulletCounts(Val(geminiOutput).tailoredResumeJson.projects) = <<1>>
  /\ IsArr(Val(geminiOutput).tailoredResumeJson.education)
  /\ Len(Val(bullets)) = 4

\* the same resume with every text replaced by one fixed text
BlankBullets(bs) ==
  IF IsArr(bs) THEN Arr([j \in 1..Len(bs[2]) |-> [text |-> <<"z">>]]) ELSE bs
BlankSection(section) ==
  IF IsArr(section)
  THEN Arr([i \in 1..Len(section[2]) |-> [bullets |-> BlankBullets(section[2][i].bullets)]])
  ELSE section
Blank(tr) ==
  [ summary |-> IF IsStr(tr.summary) THEN Str(<<"z">>) ELSE tr.summary,
    experience |-> BlankSection(tr.experience),
    projects |-> BlankSection(tr.projects),
    education |-> tr.education ]

\* C6: the identifiers extracted from one tailored resume are pairwise
\* distinct and depend only on position: a resume of the same shape with
\* other texts gives the same identifier sequence.
C6_IdsDistinctAndPositional ==
  IsSet(bullets) =>
     LET bs == Val(bullets)
     IN  /\ \A k, m \in 1..Len(bs) : k # m => bs[k].bulletId # bs[m].bulletId
         /\ IdsOf(bs) = IdsOf(extractAllBullets(Blank(Val(geminiOutput).tailoredResumeJson)))

\* bullets of two entries of two bullets each have been extracted, two of
\* them with the same text
C6_Witness ==
  /\ IsSet(bullets)
  /\ BulletCounts(Val(geminiOutput).tailoredResumeJson.experience) = <<2, 2>>
  /\ \E k, m \in 1..Len(Val(bullets)) :
        k # m /\ Val(bullets)[k].bulletText = Val(bullets)[m].bulletText

----------------------------------------------------------------------------
(* Properties of the bullet verifier (SpecVerify).                         *)

FirstBullet(bs, Matches(_)) ==
  bs[CHOOSE k \in 1..Len(bs) : Matches(bs[k]) /\ \A m \in 1..(k - 1) : ~Matches(bs[m])]

\* the identifier the four ordered rules give verification v at zero-based
\* position index: the model's identifier, else an exact text match, else a
\* containment match, else the bullet at the position
RuleBulletId(bs, v, index) ==
  LET Exact(b) == b.bulletText = v.bulletText
      Contains(b) == Includes(b.bulletText, v.bulletText) \/ Includes(v.bulletText, b.bulletText)
  IN  IF IsStr(v.bulletId) /\ v.bulletId[2] # <<>> THEN v.bulletId[2]
      ELSE IF \E k \in 1..Len(bs) : Exact(bs[k]) THEN FirstBullet(bs, Exact).bulletId
      ELSE IF \E k \in 1..Len(bs) : Contains(bs[k]) THEN FirstBullet(bs, Contains).bulletId
      ELSE IF index + 1 <= Len(bs) THEN bs[index + 1].bulletId
      ELSE <<"b", "u", "l", "l", "e", "t", "_", Digits[index + 1]>>

\* C7: each returned verification gets its bulletId by the first applicable
\* rule: the model's identifier; else the bullet whose text equals the
\* verification's text; else, only when no bullet matches exactly, a bullet
\* whose text contains or is contained in it; else the bullet at the
\* verification's position.
C7_FirstApplicableRule ==
  (pc = "verified" /\ IsSet(validatedOutput)) =>
     \A k \in 1..Len(Val(verifications)) :
        Val(verifications)[k].bulletId =
           Str(RuleBulletId(Val(bullets), Val(validatedOutput)[k], k - 1))

\* C8: verifyBullets returns exactly one verification per entry of the
\* schema-valid model output, in the model's order, whether the model
\* returned fewer, more or reordered entries; none is dropped because its
\* text matches no extracted bullet.
C8_OneVerificationPerModelEntry ==
  (pc = "verified" /\ IsSet(validatedOutput)) =>
     LET out == Val(validatedOutput)
         vs == Val(verifications)
     IN  /\ Len(vs) = Len(out)
         /\ \A k \in 1..Len(out) :
               /\ vs[k].bulletText = out[k].bulletText
               /\ vs[k].status = out[k].status
               /\ vs[k].reason = out[k].reason
               /\ vs[k].evidence = out[k].evidence
               /\ vs[k].suggestedFix = out[k].suggestedFix
               /\ IsStr(vs[k].bulletId)

\* the model returned more verifications than there are bullets, one of them
\* with a text that matches no bullet, and verifyBullets has returned
C8_Witness ==
  /\ pc = "verified"
  /\ IsSet(validatedOutput)
  /\ Len(Val(validatedOutput)) > Len(Val(bullets))
  /\ \E k \in 1..Len(Val(validatedOutput)) :
        \A m \in 1..Len(Val(bullets)) : ~TextMatches(Val(bullets)[m], Val(validatedOutput)[k])

----------------------------------------------------------------------------
(* Properties of the generate request (Spec).                              *)

\* the messages of the errors verifyBullets throws
VerifierFailures ==
  { "verifier model error", "Cannot read properties of undefined (reading 'match')",
    "Failed to parse JSON from verifier response", "Invalid verifier output structure: " }

VerificationFailed == IsSet(error) /\ Val(error).message[1] \in VerifierFailures

CallsOf(tags) == {k \in 1..Len(calls) : calls[k][1] \in tags}

\* C9: if the verification fails after the generation succeeded, the request
\* ends in an error response without truth score, flags or document URLs, no
\* document is rendered and no generation record is stored.
C9_NoPartialSuccess ==
  VerificationFailed =>
     /\ IsSet(geminiOutput)
     /\ IsSet(response)
     /\ Val(response).status = 500
     /\ DOMAIN Val(response).body = {"error", "details"}
     /\ resumePdf = Unset
     /\ coverPdf = Null
     /\ CallsOf({"resumePdf", "coverPdf", "getCollections", "insertOne"}) = {}
     /\ db = {}

\* the verifier's output was rejected by the schema after a generation that
\* succeeded
C9_Witness ==
  /\ pc = "done"
  /\ IsSet(geminiOutput)
  /\ IsSet(error)
  /\ Val(error).message[1] = "Invalid verifier output structure: "
  /\ Val(response).status = 500

\* the position of an external call in the pipeline
StageOf(call) ==
  CASE call[1] = "mkdir" -> 0
    [] call[1] = "gen" -> 1
    [] call[1] = "ver" -> 2
    [] call[1] = "resumePdf" -> 3
    [] call[1] = "coverPdf" -> 4
    [] call[1] = "getCollections" -> 5
    [] call[1] = "insertOne" -> 6

\* C10: the stages of a request run strictly in sequence: the verification
\* call starts only after the generation returned a validated resume, score
\* and flags are computed only after the verification returned, rendering and
\* persistence start only after scoring, and no two stages overlap.
C10_StagesInSequence ==
  /\ \A i, j \in 1..Len(calls) : i < j => StageOf(calls[i]) <= StageOf(calls[j])
  /\ IsSet(bullets) => IsSet(geminiOutput)
  /\ CallsOf({"ver"}) # {} => IsSet(geminiOutput)
  /\ IsSet(truthScore) => (IsSet(verifications) /\ IsSet(flags) /\ pc \notin {"gen", "ver"})
  /\ CallsOf({"resumePdf", "coverPdf", "getCollections", "insertOne"}) # {}
        => (IsSet(truthScore) /\ IsSet(flags))
  /\ pc \in {"mkdir", "gen", "ver", "resumePdf", "coverPdf", "getCollections", "insertOne"}
        => calls[Len(calls)][1] = pc

\* a request has gone through every stage, both models having been retried
C10_Witness ==
  /\ pc = "done"
  /\ IsSet(response)
  /\ Val(response).status = 200
  /\ coverPdf # Null
  /\ Cardinality(CallsOf({"gen"})) > 1
  /\ Cardinality(CallsOf({"ver"})) > 1

----------------------------------------------------------------------------
(* Properties of the model fallback (Spec).                                *)

\* the variants one call has attempted so far, in the order of the attempts
AttemptsOf(tag) ==
  LET cs == SelectSeq(calls, LAMBDA c : c[1] = tag) IN
  [k \in 1..Len(cs) |-> cs[k][2]]

\* the length of the list of variants of the generator ("gen") or verifier
VariantsOf(tag) == IF tag = "gen" THEN NumModels ELSE VerNumModels

IsPrefixOfVariants(attempts, n) ==
  /\ Len(attempts) <= n
  /\ \A k \in 1..Len(attempts) : attempts[k] = k - 1

\* the call has left its loop over the variants with the text of a response
LoopLeft(tag) == IF tag = "gen" THEN IsSet(genText) ELSE IsSet(verText)

\* the latest model call was the attempt on variant i and the loop took it
\* for a failure
FailedReply(tag, i) ==
  /\ IsSet(reply)
  /\ Val(reply).call = <<tag, i>>
  /\ Val(reply).kind \in {"raised", "no text"}
  /\ ~LoopLeft(tag)

\* C11: within one generation call and within one verification call the
\* variants attempted are the first n of the list, in list order and once
\* each; a further variant is attempted only when the attempt before it has
\* just failed; once a variant has succeeded no variant is called any more.
C11_AttemptsArePrefix ==
  /\ [](\A tag \in {"gen", "ver"} : IsPrefixOfVariants(AttemptsOf(tag), VariantsOf(tag)))
  /\ [][\A tag \in {"gen", "ver"} :
          /\ (AttemptsOf(tag) # <<>> /\ AttemptsOf(tag)' # AttemptsOf(tag))
                => /\ IsSet(reply')
                   /\ Val(reply').call = <<tag, Len(AttemptsOf(tag)) - 1>>
                   /\ Val(reply').kind \in {"raised", "no text"}
          /\ LoopLeft(tag) => AttemptsOf(tag)' = AttemptsOf(tag)]_vars

\* the generator succeeded on its third variant, the verifier on its second
C11_Witness ==
  /\ pc = "verified"
  /\ AttemptsOf("gen") = <<0, 1, 2>>
  /\ AttemptsOf("ver") = <<0, 1>>
  /\ IsSet(validatedOutput)

\* every variant of the list has been attempted and the last one failed
Exhausted(tag) ==
  /\ Len(AttemptsOf(tag)) = VariantsOf(tag)
  /\ FailedReply(tag, VariantsOf(tag) - 1)

\* what the failure of a variant says
FailureMessage(tag, kind) ==
  IF kind = "no text" THEN <<"Empty response from Gemini API">>
  ELSE IF tag = "gen" THEN <<"generator model error">>
  ELSE <<"verifier model error">>

C13_NoTextIsFailedAttempt ==
  \A tag \in {"gen", "ver"} :
     (IsSet(reply) /\ Val(reply).call[1] = tag /\ Val(reply).kind = "no text") =>
        /\ ~LoopLeft(tag)
        /\ LET i == Val(reply).call[2] IN
           IF i < VariantsOf(tag) - 1
           THEN AttemptsOf(tag)[Len(AttemptsOf(tag))] = i + 1
           ELSE Exhausted(tag) /\ pc = "done"

----------------------------------------------------------------------------
(* Properties of the handling of a model's text (SpecOutput).              *)

\* the candidates of the three recovery steps, in their order
Candidates(text) == << CodeBlockMatch(text), ObjectMatch(text), Set(Trim(text)) >>

ParsingSteps(text) ==
  {k \in 1..3 : IsSet(Candidates(text)[k]) /\ IsSet(JsonParse(Val(Candidates(text)[k])))}

\* the value of the first step whose candidate parses, Unset when none does
RuleRecovered(text) ==
  IF ParsingSteps(text) = {} THEN Unset
  ELSE JsonParse(Val(Candidates(text)[SetMin(ParsingSteps(text))]))

SameValue(v, w) == v[1] = w[1] /\ v = w

\* the text handed to the recovery of the generator / the verifier is a text
GenRecovered == IsSet(genText)
VerRecovered == IsSet(verText) /\ Val(verText) # UndefinedText

\* C14: the value recovered from a model's text is the value of the first of
\* the three steps (fenced block, first { to last }, trimmed text) whose
\* candidate parses as JSON, whatever that value is.
C14_FirstParsingStepWins ==
  /\ (GenRecovered /\ IsSet(RuleRecovered(Val(genText)))) =>
        /\ IsSet(genParsed)
        /\ SameValue(Val(genParsed), Val(RuleRecovered(Val(genText))))
  /\ (VerRecovered /\ IsSet(RuleRecovered(Val(verText)))) =>
        /\ IsSet(verParsed)
        /\ SameValue(Val(verParsed), Val(RuleRecovered(Val(verText))))

\* the recovery of `text` failed: the request ended with the parse error,
\* nothing was validated, and `logged` is all the text that was logged
RecoveryFailed(text, parsed, failure, logged) ==
  /\ pc = "done"
  /\ ~IsSet(parsed)
  /\ Val(error).message[1] = failure
  /\ Val(response).status = 500
  /\ Len(log) = 1
  /\ Len(log[1]) <= DiagnosticLimit
  /\ log[1] = SubSeq(text, 1, Len(log[1]))
  /\ Len(text) > DiagnosticLimit => log[1] # text

\* C15: when none of the three steps parses, the recovery fails with an error,
\* no value reaches the validation, and what is logged of the text is a prefix
\* of at most 500 characters, never a whole text longer than that.
C15_BoundedDiagnostic ==
  /\ (GenRecovered /\ ~IsSet(RuleRecovered(Val(genText)))) =>
        /\ RecoveryFailed(Val(genText), genParsed,
                          "Failed to parse JSON from Gemini response", log)
        /\ ~IsSet(geminiOutput)
  /\ (VerRecovered /\ ~IsSet(RuleRecovered(Val(verText)))) =>
        /\ RecoveryFailed(Val(verText), verParsed,
                          "Failed to parse JSON from verifier response", log)
        /\ ~IsSet(validatedOutput)

\* a text of 501 characters without JSON was given to the generator's recovery
C15_Witness ==
  /\ GenRecovered
  /\ Len(Val(genText)) = DiagnosticLimit + 1
  /\ pc = "done"
  /\ Len(log[1]) = DiagnosticLimit

\* x with null read as absent
NullAsAbsent(x) == IF x = Null THEN Undefined ELSE x

\* the generation payload with the nulls of its optional strings read as absent
GeneratorNullsAbsent(value) ==
  LET o == value[2] IN
  Obj([k \in DOMAIN o |->
         IF k = "coverLetterText" THEN NullAsAbsent(o[k])
         ELSE IF k = "suggestedAdditions" /\ IsArr(o[k])
         THEN Arr([i \in 1..Len(o[k][2]) |->
                     [o[k][2][i] EXCEPT !.suggestedText = NullAsAbsent(@)]])
         ELSE o[k]])

\* the verification payload with the nulls of its optional strings read as absent
VerifierNullsAbsent(value) ==
  LET o == value[2] IN
  Obj([k \in DOMAIN o |->
         IF k = "verifications" /\ IsArr(o[k])
         THEN Arr([i \in 1..Len(o[k][2]) |->
                     [o[k][2][i] EXCEPT !.suggestedFix = NullAsAbsent(@),
                                        !.bulletId = NullAsAbsent(@)]])
         ELSE o[k]])

\* C16: a recovered payload that fits the schema once the nulls on its optional
\* string fields are read as absent is validated successfully, and its output
\* has those fields absent.
C16_NullsValidateAsAbsent ==
  /\ (IsSet(genParsed) /\ IsObj(Val(genParsed))
        /\ GeneratorIssues(GeneratorNullsAbsent(Val(genParsed))) = <<>>) =>
        /\ IsSet(geminiOutput)
        /\ Val(geminiOutput) = GeneratorParsed(GeneratorNullsAbsent(Val(genParsed))[2])
  /\ (IsSet(verParsed) /\ IsObj(Val(verParsed))
        /\ VerifierIssues(VerifierNullsAbsent(Val(verParsed))) = <<>>) =>
        /\ IsSet(validatedOutput)
        /\ Val(validatedOutput) = VerifierNullsAbsent(Val(verParsed))[2].verifications[2]

\* the (path, message) pair of an issue as it stands in a message
Pair(issue) == PathText(issue.path) \o <<": ", issue.message>>

\* the error of the request and its response list the pair of every issue
ListsEveryIssue(issues) ==
  /\ pc = "done"
  /\ IsSet(error)
  /\ \A k \in 1..Len(issues) : Includes(Val(error).message, Pair(issues[k]))
  /\ Val(response).body.details = Val(error).message

\* the value the verifier gives to its schema
VerifierValidated ==
  IF verifier = ModelLoop THEN PreprocessVerifier(Val(verParsed)) ELSE Val(verParsed)

\* C17: when the recovered value fails the schema, in the generator and in
\* the verifier, the error that reaches the caller lists the path and the
\* message of every issue; a generation payload without summary is rejected
\* with the path tailoredResumeJson.summary.
C17_IssuesListedAsPairs ==
  /\ (IsSet(genParsed) /\ GeneratorIssues(PreprocessGenerator(Val(genParsed))) # <<>>) =>
        /\ ListsEveryIssue(GeneratorIssues(PreprocessGenerator(Val(genParsed))))
        /\ ~IsSet(geminiOutput)
  /\ (IsSet(genParsed) /\ Has(Val(genParsed)[2], "tailoredResumeJson")
        /\ Field(Val(genParsed)[2].tailoredResumeJson, "summary") = Undefined) =>
        /\ pc = "done"
        /\ Includes(Val(error).message, <<"tailoredResumeJson", ".", "summary", ": ">>)
  /\ (IsSet(verParsed) /\ VerifierIssues(VerifierValidated) # <<>>) =>
        /\ ListsEveryIssue(VerifierIssues(VerifierValidated))
        /\ ~IsSet(validatedOutput)

----------------------------------------------------------------------------
(* Properties of the failures of a request (Spec, SpecExtract).            *)

\* how generateTailoredResume failed, "" when it did not: no text was taken
\* from any variant, no value was recovered, or the value was not validated
GenFailure ==
  IF ~(pc = "done" /\ IsSet(genIdx) /\ ~IsSet(geminiOutput)) THEN ""
  ELSE IF ~IsSet(genText) THEN "exhaustion"
  ELSE IF ~IsSet(genParsed) THEN "recovery"
  ELSE "validation"

\* what a caller reads off the message of the error
FailureRead(message) ==
  IF message[1] = "Invalid output structure: " THEN "validation"
  ELSE IF message[1] = "Failed to parse JSON from Gemini response" THEN "recovery"
  ELSE "exhaustion"

\* C18: the caller of generateTailoredResume and the caller of the endpoint can
\* tell from the error, and from the response, which of the three failures of
\* the generation occurred.
C18_FailuresDistinguishable ==
  GenFailure # "" =>
     /\ FailureRead(Val(error).message) = GenFailure
     /\ Val(response).status = 500
     /\ FailureRead(Val(response).body.details) = GenFailure

\* the schema rejected the generator's output
C18_Witness ==
  /\ GenFailure = "validation"
  /\ Val(response).body.details[1] = "Invalid output structure: "

\* the fields of a body that the input rules reject
Offending(b) ==
  (IF IsStr(b.jobText) /\ b.jobText[2] # <<>> THEN {} ELSE {"jobText"})
  \cup (IF IsStr(b.resumeText) /\ b.resumeText[2] # <<>> THEN {} ELSE {"resumeText"})
  \cup (IF b.includeCoverLetter = Undefined \/ IsBool(b.includeCoverLetter) THEN {}
        ELSE {"includeCoverLetter"})
  \cup (IF b.jobUrl = Undefined \/ b.jobUrl = Str(<<>>) \/ (IsStr(b.jobUrl) /\ IsUrl(b.jobUrl[2]))
        THEN {} ELSE {"jobUrl"})

\* C19: a request whose body fails the input validation is answered with a 400
\* that lists the offending fields, and no model call, no rendering call and
\* no write to the store is made for it.
C19_InvalidBodyRejected ==
  Offending(body) # {} =>
     /\ pc \in {"received", "done"}
     /\ pc = "done" => /\ Val(response).status = 400
                       /\ Val(response).body.details = Offending(body)
     /\ CallsOf({"gen", "ver", "resumePdf", "coverPdf", "getCollections", "insertOne"}) = {}
     /\ ~IsSet(resumePdf)
     /\ db = {}

\* a body without jobText and with a malformed jobUrl was rejected
C19_Witness ==
  /\ pc = "done"
  /\ Val(response).status = 400
  /\ Val(response).body.details = {"jobText", "jobUrl"}

\* C20: when no claim is extracted from the resume, verifyBullets returns an
\* empty list of verifications and calls no model.
C20_NoBulletsNoModelCall ==
  (IsSet(bullets) /\ Val(bullets) = <<>>) =>
     /\ pc = "verified"
     /\ verifications = Set(<<>>)
     /\ CallsOf({"ver"}) = {}
     /\ ~IsSet(verIdx)

\* verifyBullets returned for a resume without summary and without bullets
C20_Witness ==
  /\ IsSet(bullets)
  /\ Val(bullets) = <<>>
  /\ pc = "verified"
  /\ IsSet(verifications)

----------------------------------------------------------------------------
(* Properties of the link normalization (SpecLinks).                       *)

\* the text begins with a URL scheme: characters other than : and /, then :
HasScheme(s) ==
  \E i \in 2..Len(s) : s[i] = ":" /\ \A j \in 1..(i - 1) : s[j] \notin {":", "/"}

\* a link value after the normalization the rule describes
RuleNormalized(x) ==
  IF IsStr(x) /\ x[2] # <<>> /\ ~HasScheme(x[2]) THEN Str(HttpsPrefix \o x[2]) ELSE x

\* the links and the project urls of a resume, in one sequence
LinksOf(tr) ==
  (IF Has(tr, "basics") /\ Has(tr.basics, "links")
   THEN [k \in 1..Len(LinkKeys) |-> Field(tr.basics.links, LinkKeys[k])]
   ELSE <<>>)
  \o (IF IsArr(tr.projects)
      THEN [i \in 1..Len(tr.projects[2]) |-> Field(tr.projects[2][i], "url")]
      ELSE <<>>)

\* generateTailoredResume returned an output made from the text of the model
ReturnedFromText == IsSet(genParsed) /\ IsSet(geminiOutput) /\ IsObj(Val(genParsed))

\* C21: in the output generateTailoredResume returns, every present link
\* (the four links of basics and each project url) is the model's value with
\* https:// in front exactly when that value has no URL scheme, and the value
\* itself when it carries any scheme; normalizing the output again changes
\* nothing; and an output is only normalized and returned when the schema
\* accepted it.
C21_LinksNormalized ==
  /\ ReturnedFromText =>
       /\ GeneratorIssues(PreprocessGenerator(Val(genParsed))) = <<>>
       /\ LinksOf(Val(geminiOutput).tailoredResumeJson)
            = [k \in 1..Len(LinksOf(Val(genParsed)[2].tailoredResumeJson)) |->
                 RuleNormalized(LinksOf(Val(genParsed)[2].tailoredResumeJson)[k])]
       /\ normalizeUrls(Val(geminiOutput)) = Val(geminiOutput)
  /\ (IsSet(genParsed) /\ GeneratorIssues(PreprocessGenerator(Val(genParsed))) # <<>>) =>
       ~IsSet(geminiOutput)

----------------------------------------------------------------------------
(* Further properties of the truth scorer (SpecScore).                     *)

\* w is a permutation of vs: the lists of SpecScore differ in statuses only
Permutes(w, vs) ==
  /\ Len(w) = Len(vs)
  /\ \A st \in Statuses : CountStatus(w, st) = CountStatus(vs, st)
  /\ \A k \in 1..Len(w) : \E j \in 1..Len(vs) : w[k] = vs[j]

\* C22: the score of a verification list is the score of every permutation
\* of that list.
C22_ScoreOrderIndependent ==
  IsSet(truthScore) =>
     \A w \in ScoreInputs :
        Permutes(w, Val(verifications)) => calculateTruthScore(w) = Val(truthScore)

\* the scorer has scored [STRETCH, UNSUPPORTED, SUPPORTED], which has five
\* other orders
C22_Witness ==
  /\ IsSet(truthScore)
  /\ StatusesOf(Val(verifications)) = <<"STRETCH", "UNSUPPORTED", "SUPPORTED">>
  /\ Val(truthScore) = 72
  /\ Cardinality({w \in ScoreInputs : Permutes(w, Val(verifications))}) = 6

----------------------------------------------------------------------------
(* Properties of the stored record and of the identifiers (SpecIds).       *)

\* the record of the request in the collection
RecordsOf(id) == {d \in db : d.id = id}

Succeeded == IsSet(response) /\ Val(response).status = 200

\* C23: a request that is answered with 200 has, when the response is sent,
\* exactly one record in the collection under its generationId, whose
\* truthScore, flags, verifications, claimMap and suggestedAdditions are those
\* of the response; and no step of the server removes or changes a record.
C23_OneImmutableRecord ==
  /\ [](Succeeded =>
          /\ Cardinality(RecordsOf(Val(generationId))) = 1
          /\ \A d \in RecordsOf(Val(generationId)) :
               /\ d.id = Val(response).body.generationId
               /\ d.truthScore = Val(response).body.truthScore
               /\ d.flags = Val(response).body.flags
               /\ d.verifications = Val(response).body.verifications
               /\ d.claimMap = Val(response).body.claimMap
               /\ d.suggestedAdditions = Val(response).body.suggestedAdditions)
  /\ [][db \subseteq db']_vars

\* the request was answered with 200 and the other request, which drew the
\* same identifier, then failed to insert
C23_Witness ==
  /\ Succeeded
  /\ peerPc = "failed"
  /\ peerId = generationId
  /\ Cardinality(db) = 1

\* C24: two generate requests never hold the same generationId, hence never
\* the same storage directory and never the same record key.
C24_IdsUnique ==
  (IsSet(generationId) /\ IsSet(peerId)) =>
     /\ Val(generationId) # Val(peerId)
     /\ GenerationDir(Val(generationId)) # GenerationDir(Val(peerId))

----------------------------------------------------------------------------
(* Properties of the identifiers of the returned verifications             *)
(* (SpecVerify).                                                           *)

\* the identifiers of the bullets extracted from the tailored resume
ExtractedIds == {Str(Val(bullets)[k].bulletId) : k \in 1..Len(Val(bullets))}

\* C25: every verification returned by verifyBullets carries the identifier
\* of one of the extracted bullets, and the identifiers of the returned
\* verifications are pairwise distinct.
C25_IdsExtractedAndDistinct ==
  (pc = "verified" /\ IsSet(validatedOutput)) =>
     /\ \A k \in 1..Len(Val(verifications)) :
           Val(verifications)[k].bulletId \in ExtractedIds
     /\ \A k, m \in 1..Len(Val(verifications)) :
           k # m => Val(verifications)[k].bulletId # Val(verifications)[m].bulletId

\* the verdicts that generateFlags turns into flags
Flagged(verifs) ==
  {k \in 1..Len(verifs) : verifs[k].status \in {"STRETCH", "UNSUPPORTED"}}

\* C27: every verification returned by verifyBullets has a non-empty string
\* bulletId, and generateFlags applied to the result does not fail: the
\* request does not end with the TypeError, and every flag has the section
\* that its identifier starts with.
C27_BulletIdIsNonEmptyString ==
  /\ IsSet(verifications) =>
        \A k \in 1..Len(Val(verifications)) :
           /\ IsStr(Val(verifications)[k].bulletId)
           /\ Val(verifications)[k].bulletId[2] # <<>>
  /\ IsSet(error) => Val(error).name # "TypeError"
  /\ IsSet(verificationFlags) =>
        /\ Len(Val(verificationFlags)) = Cardinality(Flagged(Val(verifications)))
        /\ \A k \in 1..Len(Val(verificationFlags)) :
              Val(verificationFlags)[k].section =
                 SplitFirst(Val(verificationFlags)[k].bulletId[2])

\* the model returned more verifications than there are bullets, the surplus
\* one without an identifier and with a text that matches no bullet, and
\* generateFlags has made its flag from the fallback identifier
C27_Witness ==
  /\ IsSet(verificationFlags)
  /\ Len(Val(validatedOutput)) > Len(Val(bullets))
  /\ \E k \in 1..Len(Val(verificationFlags)) :
        /\ Val(verificationFlags)[k].bulletId = Str(S_bullet \o <<"_", "1">>)
        /\ Val(verificationFlags)[k].section = S_bullet

----------------------------------------------------------------------------
(* Coverage of the extracted bullets by the scored verifications (Spec).   *)

\* the verifications of the response that carry the identifier of bullet b
VerificationsOf(b) ==
  {k \in 1..Len(Val(verifications)) :
      Val(verifications)[k].bulletId = Str(b.bulletId)}

\* C26: in a successful response every extracted bullet is covered by at
\* least one scored verification, and when the truthScore is 100 every
\* extracted bullet has a verification with status SUPPORTED.
C26_EveryBulletCovered ==
  Succeeded =>
     \A k \in 1..Len(Val(bullets)) :
        /\ VerificationsOf(Val(bullets)[k]) # {}
        /\ Val(response).body.truthScore = 100 =>
              \E m \in VerificationsOf(Val(bullets)[k]) :
                 Val(verifications)[m].status = "SUPPORTED"

----------------------------------------------------------------------------
(* The bullet list within the generate pipeline (Spec).                    *)

\* the experience entries of the validated tailored resume
ExperienceOf(out) ==
  IF IsArr(out.tailoredResumeJson.experience)
  THEN out.tailoredResumeJson.experience[2] ELSE <<>>

\* C28: in the generate pipeline the extracted bullet list is never empty
\* and starts with summary_0, every experience entry of the validated
\* resume has a bullet, the verification stage makes at least one model
\* call, and the verification list is empty only when the model returned
\* zero verifications.
C28_BulletListNeverEmpty ==
  /\ IsSet(geminiOutput) =>
        \A i \in 1..Len(ExperienceOf(Val(geminiOutput))) :
           Len(ExperienceOf(Val(geminiOutput))[i].bullets[2]) >= 1
  /\ IsSet(bullets) =>
        /\ Len(Val(bullets)) >= 1
        /\ Val(bullets)[1].bulletId = S_summary \o <<"_", "0">>
        /\ CallsOf({"ver"}) # {}
  /\ (IsSet(verifications) /\ Val(verifications) = <<>>) =>
        /\ IsSet(validatedOutput)
        /\ Val(validatedOutput) = <<>>

\* the model returned zero verifications for a resume with two bullets, and
\* the handler has scored the empty list with 0
C28_Witness ==
  /\ IsSet(truthScore)
  /\ Val(truthScore) = 0
  /\ Val(verifications) = <<>>
  /\ Val(validatedOutput) = <<>>
  /\ Len(Val(bullets)) = 2
  /\ CallsOf({"ver"}) # {}

----------------------------------------------------------------------------
(* The database connection under concurrent calls (SpecDb).                *)

\* C29: every call of getDatabase / getCollections that resolves returns a
\* non-null handle of a connected database, at most one MongoClient is
\* created, and a call made after a failed connect attempt attempts to
\* connect again.
C29_ConnectionShared ==
  /\ \A k \in 1..Len(callers) :
        /\ callers[k].pc = "resolved" => callers[k].result # Null
        /\ callers[k].afterFailure => callers[k].attempted
  /\ created <= 1

----------------------------------------------------------------------------
(* Every request is answered (SpecLive).                                   *)

\* the status the handler owes the request in its present state
StatusOwed ==
  IF ~ValidInput(body) THEN 400
  ELSE IF IsSet(error) THEN 500
  ELSE 200

\* C30: when every external call returns or raises, the request eventually
\* has a response; the response is 400 when the input is invalid, 500 after
\* any other failure and 200 when every stage succeeded; and a response
\* that was sent is never followed by another.
C30_ExactlyOneResponse ==
  /\ <>(pc = "done" /\ IsSet(response))
  /\ [](IsSet(response) =>
          /\ Val(response).status = StatusOwed
          /\ Val(response).status = 200 =>
                /\ IsSet(resumePdf)
                /\ RecordsOf(Val(generationId)) # {})
  /\ [][IsSet(response) => response' = response]_vars

\* the last external call of the handler, insertOne, raised and the request
\* was answered with 500
C30_Witness ==
  /\ pc = "done"
  /\ IsSet(response)
  /\ Val(response).status = 500
  /\ Val(error).message = <<"insertOne">>
  /\ IsSet(resumePdf)
====
